---- MODULE Spec2Model ----
(***************************************************************************)
(* A model of the broadcast Hub (src/hub): the routing core (hub.go,       *)
(* module.go), the plugin supervisor (plugin_manager.go) and the health    *)
(* monitor (the HealthMonitor part of http.go).                            *)
(*                                                                         *)
(* The three subsystems are modelled over one set of variables.  Each      *)
(* specification exercises one subsystem and leaves the variables of the   *)
(* others untouched:                                                       *)
(*   Spec    the Hub event loop and the reader and writer task of every    *)
(*           peer;                                                         *)
(*   SpecPM  the supervisor: StartPlugin / StopPlugin / RestartPlugin /    *)
(*           monitorProcess as interleaved threads;                        *)
(*   SpecHM  the health monitor: ticks, checks and heartbeat ingestion,    *)
(*           next to the Hub loop that feeds it.                           *)
(***************************************************************************)
EXTENDS Integers, Sequences, FiniteSets, TLC

(***************************************************************************)
(* Bounds of the model.                                                    *)
(***************************************************************************)
\* connections accepted during one run
MaxConns == 2
\* frames read off the wire during one run
MaxFrames == 5
\* capacity of a peer's send queue (256 in module.go:34, scaled down)
SendCap == 1
\* capacity of the Hub's Route channel (256 in hub.go:59, scaled down)
RouteCap == 1

Conns == 1..MaxConns
\* the nil *Module
NoConn == 0
\* peer ids that occur in payloads
Ids == {"a", "b"}
\* the strings a Module.ID can hold: an id or the empty string
Keys == Ids \cup {""}
\* a payload key that is absent
NoField == "<none>"

VARIABLES
    hub,        \* the Hub registry: MainModule, Plugins, PendingModules,
                \* ExpectedPlugins, ExternalPlugins
    mod,        \* per connection, the Module's ID, ComponentType, IsActive
    conn,       \* per connection: absent (not accepted yet), open, closing (the
                \* transport is closed, the reader task waits at Unregister), gone
    send,       \* per connection, the content of Module.Send
    sendClosed, \* per connection, whether Module.Send has been closed
    route,      \* the content of Hub.Route
    hubOps,     \* what is left to do of the handler the Hub loop is in
    hubPanic,   \* the Hub process panicked (send on / close of a closed channel)
    nframes,    \* the number of frames read off the wire so far
    regSrc,     \* history: the connection whose envelope registered this one
    delivery,   \* history: the envelope the Hub loop handled last, the queues
                \* it enqueued to and the queues that were full
    pm,         \* the supervisor's plugin table and its threads
    hm          \* the health monitor's table, clock and check thread

hubVars == <<hub, mod, conn, send, sendClosed, route, hubOps, hubPanic,
             nframes, regSrc, delivery>>
vars == <<hub, mod, conn, send, sendClosed, route, hubOps, hubPanic,
          nframes, regSrc, delivery, pm, hm>>

(***************************************************************************)
(* Envelopes (message.go).  payload.id, payload.plugin_id and              *)
(* payload.component_type are the keys the Hub reads, payload.class is    *)
(* kept as the list of class names it holds (a string payload is a list   *)
(* of one); src is a history field (the connection the frame arrived on)   *)
(* that no handler reads.                                                  *)
(***************************************************************************)
Message(src, from, to, type, id, pid, ct) ==
    [src |-> src, from |-> from, to |-> to, type |-> type,
     id |-> id, pid |-> pid, ct |-> ct, class |-> <<>>, plugins |-> <<>>]

NewMessage(to, type, id, arg) ==
    Message(NoConn, "hub", to, type, id, NoField, arg)

NoMsg == Message(NoConn, "", "", "", "", NoField, "")

\* The frames a peer may put on the wire.
RegisterFrames ==
    {Message(NoConn, "", "hub", "register", i, NoField, "") : i \in {"", "a"}}
    \cup {Message(NoConn, "", "hub", "register", "a", NoField, "main_module")}
    \cup {Message(NoConn, "", "hub", "register", "", p, "") : p \in Ids}

ExternalFrames ==
    {Message(NoConn, "", "hub", "register_external_plugin", "", "b", "")}

DataFrames ==
    {Message(NoConn, "", t, "noop", "", NoField, "") : t \in {"a", "broadcast"}}

PingFrames == {Message(NoConn, "", "hub", "ping", "", NoField, "")}

\* class names that occur in payloads and destinations
Classes == {"x", "y"}

\* hub.go 900-901: strings.HasPrefix(msg.To, "broadcast:")
HasBroadcastPrefix(to) == to \in {"broadcast:x", "broadcast:y"}

\* hub.go 901: strings.TrimPrefix(msg.To, "broadcast:")
TrimBroadcastPrefix(to) == IF to = "broadcast:x" THEN "x" ELSE "y"

\* subscribe with a string and with a list payload, unsubscribe
SubscribeFrames ==
    {[Message(NoConn, "", "hub", "subscribe", "", NoField, "") EXCEPT !.class = l] :
        l \in {<<"x">>, <<"y", "x", "x">>}}
    \cup {[Message(NoConn, "", "hub", "unsubscribe", "", NoField, "")
              EXCEPT !.class = <<"x">>]}

\* envelopes of an opaque type: unicast, wildcard, class multicast, empty to
RoutedFrames ==
    {Message(NoConn, "", t, "noop", "", NoField, "") :
        t \in {"a", "broadcast", "broadcast:x", ""}}

HeartbeatFrames == {Message(NoConn, "", "hub", "heartbeat", "", NoField, "")}

Frames == RegisterFrames \cup ExternalFrames \cup DataFrames \cup PingFrames

(***************************************************************************)
(* Module and registry values.                                             *)
(***************************************************************************)
\* cap is the capacity of the Send channel made at module.go:34
NewModule == [ID |-> "", ComponentType |-> "", IsActive |-> FALSE,
              Capabilities |-> <<>>, cap |-> SendCap]

NoExternal == [exists |-> FALSE, Module |-> NoConn, Status |-> "disconnected",
               age |-> 0]

\* the monitorExternalPlugins goroutine between ticks
IdleMonitor == [pc |-> "idle", todo |-> {}, id |-> "", phase |-> 0, due |-> FALSE]

\* mu is the registry lock h.mu: the read locks held and whether the Hub
\* loop waits in Lock(); mon is the external-plugin monitor
NewHub ==
    [MainModule |-> NoConn,
     Plugins |-> [k \in Keys |-> NoConn],
     PendingModules |-> {},
     ExpectedPlugins |-> {},
     ExternalPlugins |-> [k \in Keys |-> NoExternal],
     cap |-> RouteCap,
     shutdown |-> FALSE,
     returned |-> FALSE,
     mu |-> [readers |-> 0, waiting |-> FALSE],
     mon |-> IdleMonitor]

\* One step left of a handler: a channel operation on connection c.
Op(op, c, m) == [op |-> op, c |-> c, m |-> m]
\* a call into the supervisor or the health monitor for plugin id
Call(op, id) == [op |-> op, c |-> NoConn, m |-> NewMessage("", "", id, "")]

\* The part of the state a Hub handler works on.
World(h, md, ops, rs) == [hub |-> h, mod |-> md, ops |-> ops, regSrc |-> rs]

(***************************************************************************)
(* The supervisor (plugin_manager.go 513-985).  Every call of StartPlugin, *)
(* StopPlugin, RestartPlugin or StopAllPlugins runs in a goroutine of its  *)
(* own (hub.go 625, 875; http.go 378), modelled as a thread that takes one *)
(* step per lock region or unlocked access.  A thread that returns from    *)
(* StartPlugin goes on as the monitorProcess goroutine it started.         *)
(***************************************************************************)
\* OS processes spawned during one run
MaxProcs == 3
\* supervisor goroutines alive at a time
MaxThreads == 2
\* calls into the supervisor during one run
MaxCalls == 3
\* the largest max_restarts a configuration carries
MaxMaxRestarts == 2

\* the plugins of type local in the configuration
Managed == {"a"}
Procs == 1..MaxProcs
Threads == 1..MaxThreads
\* the nil *exec.Cmd and the nil channel
NoProc == 0
\* the channel LoadConfig makes (plugin_manager.go 611)
LoadChan == MaxProcs + 1

\* plugin_manager.go 608-612
NewPluginProcess(maxRestarts, restartOnCrash) ==
    [Status |-> "stopped", RestartCount |-> 0, Process |-> NoProc,
     exitChan |-> LoadChan, LastError |-> FALSE,
     MaxRestarts |-> maxRestarts, RestartOnCrash |-> restartOnCrash]

\* an OS process that was not spawned yet
\* peer is the state of the child's connection to the Hub; late records that
\* the child exited after StopAllPlugins had raised the shutdown flag
NoProcess == [id |-> "", st |-> "none", peer |-> "none", late |-> FALSE]

IdleThread == [pc |-> "idle", id |-> "", cmd |-> NoProc, ch |-> NoProc,
               next |-> "", auto |-> FALSE, by |-> ""]

NewPluginManager(maxRestarts, restartOnCrash) ==
    [plugins |-> [id \in Managed |-> NewPluginProcess(maxRestarts, restartOnCrash)],
     shuttingDown |-> FALSE,
     os |-> [k \in Procs |-> NoProcess],
     closed |-> {},
     panic |-> "",
     threads |-> [t \in Threads |-> IdleThread],
     calls |-> 0,
     down |-> FALSE,
     afterStop |-> [id \in Managed |-> FALSE]]

\* plugin_manager.go 687: the plugin counts as running
AlreadyRunning(p) == p.Status = "online" \/ p.Status = "starting"

\* plugin_manager.go 695: the restart limit is reached
RestartLimitReached(p) == p.RestartCount > 0 /\ p.RestartCount >= p.MaxRestarts

\* plugin_manager.go 798-800
shouldRestart(q, p) ==
    ~q.shuttingDown /\ p.RestartOnCrash /\ p.RestartCount < p.MaxRestarts

\* plugin_manager.go 745-751: the bookkeeping after cmd.Start()
Started(p, k) ==
    [p EXCEPT !.Process = k, !.Status = "starting",
              !.RestartCount = @ + 1, !.exitChan = k]

\* plugin_manager.go 871-875
Stopped(p) == [p EXCEPT !.Status = "stopped", !.Process = NoProc, !.exitChan = NoProc]

\* a thread that is inside an explicit (not monitorProcess's) StartPlugin,
\* or is a RestartPlugin that has its StartPlugin still to come
ExplicitStartPending(q, id) ==
    \E t \in DOMAIN q.threads :
        /\ q.threads[t].id = id
        /\ \/ q.threads[t].pc \in {"st_check", "st_spawn"} /\ ~q.threads[t].auto
           \/ q.threads[t].next = "start"

\* what a thread does when its StopPlugin returns
AfterStopPlugin(th) ==
    IF th.next = "start"
    THEN [th EXCEPT !.pc = "st_check", !.next = "", !.auto = FALSE]
    ELSE IdleThread

\* hub.go 553-561: the Hub saw a peer with this id register
PMSetConnected(q, id) ==
    IF id \in Managed THEN [q EXCEPT !.plugins[id].Status = "connected"] ELSE q

\* the goroutine that runs a call of kind k for plugin id
NewThread(k, id) ==
    [pc |-> CASE k = "start" -> "st_check"
              [] k = "stopall" -> "sa_flag"
              [] OTHER -> "sp_check",
     id |-> id, cmd |-> NoProc, ch |-> NoProc,
     next |-> IF k = "restart" THEN "start" ELSE "",
     auto |-> FALSE, by |-> ""]

\* the thread slots that are free
IdleThreads(q) == {t \in DOMAIN q.threads : q.threads[t].pc = "idle"}

\* a caller enters the supervisor in a goroutine of its own
Go(q, t, k, id) ==
    [q EXCEPT !.threads[t] = NewThread(k, id),
              !.afterStop[id] = IF k \in {"start", "restart"} THEN FALSE ELSE @]

\* a goroutine of the Hub enters the supervisor; by names the handler that
\* started it
GoBy(q, k, id, by) ==
    IF IdleThreads(q) = {} THEN q
    ELSE LET t == CHOOSE u \in IdleThreads(q) : \A v \in IdleThreads(q) : u <= v
         IN [Go(q, t, k, id) EXCEPT !.threads[t].by = by]

\* hub.go 871-881: go RestartPlugin(id), unless the supervisor is shutting down
goRestartPlugin(q, id) ==
    IF id \notin Managed \/ q.shuttingDown THEN q
    ELSE GoBy(q, "restart", id, "handleUnregister")

\* hub.go 616-627: go StartPlugin(id) for a plugin the supervisor manages
goStartPlugin(q, id) ==
    IF id \notin Managed THEN q
    ELSE GoBy(q, "start", id, "handleDeclareRequiredPlugins")

\* the live OS processes of plugin id
LiveProcesses(q, id) ==
    {k \in DOMAIN q.os : q.os[k].id = id /\ q.os[k].st = "live"}

(***************************************************************************)
(* The health monitor (http.go 165-401).  Time is counted in seconds and   *)
(* advances by one check interval at a time.                               *)
(***************************************************************************)
\* http.go 200
checkInterval == 10
\* http.go 201
heartbeatTimeout == 30
\* http.go 202
maxFailures == 3
\* ticks of the check ticker during one run
MaxTicks == 7
\* ticks of the check ticker during one run with heartbeats
MaxHMTicks == 5
\* frames read off the wire during one run of the health monitor
MaxHMFrames == 3

NoHealth == [exists |-> FALSE, LastHeartbeat |-> 0, HeartbeatCount |-> 0,
             IsHealthy |-> FALSE, ConsecutiveFails |-> 0]

\* the checkAllPlugins goroutine between rounds
IdleCheck == [pc |-> "idle", id |-> "", since |-> 0, stale |-> FALSE]

\* http.go 196-206
NewHealthMonitor ==
    [pluginHealth |-> [k \in Keys |-> NoHealth],
     now |-> 0,
     due |-> FALSE,
     todo |-> {},
     chk |-> IdleCheck]

\* the entry the check holds a pointer to is taken out of the map
Orphaned(m, id) == m.chk.stale \/ (m.chk.pc # "idle" /\ m.chk.id = id)

\* http.go 251-263
RegisterPlugin(m, id) ==
    [m EXCEPT !.pluginHealth[id] =
                  [exists |-> TRUE, LastHeartbeat |-> m.now, HeartbeatCount |-> 0,
                   IsHealthy |-> TRUE, ConsecutiveFails |-> 0],
              !.chk.stale = Orphaned(m, id)]

\* http.go 266-272
UnregisterPlugin(m, id) ==
    [m EXCEPT !.pluginHealth[id] = NoHealth, !.chk.stale = Orphaned(m, id)]

\* http.go 275-299
UpdateHeartbeat(m, id) ==
    LET health == IF m.pluginHealth[id].exists THEN m.pluginHealth[id]
                  ELSE [NoHealth EXCEPT !.exists = TRUE, !.IsHealthy = TRUE]
        beat == [health EXCEPT !.LastHeartbeat = m.now, !.HeartbeatCount = @ + 1]
    IN [m EXCEPT !.pluginHealth[id] =
                     IF beat.IsHealthy THEN beat
                     ELSE [beat EXCEPT !.IsHealthy = TRUE, !.ConsecutiveFails = 0]]

\* http.go 334-337: the plugin is in the registry and active
PluginIsActive(h, md, id) == h.Plugins[id] # NoConn /\ md[h.Plugins[id]].IsActive

(***************************************************************************)
(* Notifications to the main module.                                       *)
(***************************************************************************)
MainModuleActive(h, md) == h.MainModule # NoConn /\ md[h.MainModule].IsActive

\* hub.go 786-800: a blocking send on MainModule.Send
notifyPluginOnline(h, md, p) ==
    IF ~MainModuleActive(h, md) THEN <<>>
    ELSE <<Op("send", h.MainModule,
              NewMessage(md[h.MainModule].ID, "plugin_online", md[p].ID, ""))>>

\* hub.go 803-816: a blocking send on MainModule.Send
notifyPluginOffline(h, md, p) ==
    IF ~MainModuleActive(h, md) THEN <<>>
    ELSE <<Op("send", h.MainModule,
              NewMessage(md[h.MainModule].ID, "plugin_offline", md[p].ID, ""))>>

\* hub.go 462-492: a select with default on MainModule.Send
notifyMainModuleExternalPluginStatus(h, md, k) ==
    IF ~MainModuleActive(h, md) THEN <<>>
    ELSE <<Op("trysend", h.MainModule,
              NewMessage(md[h.MainModule].ID, "external_plugin_status_update", k,
                         h.ExternalPlugins[k].Status))>>

(***************************************************************************)
(* Registration (hub.go 149-304, 495-581).  A handler maps a World to the  *)
(* World after its registry updates, with the channel operations that      *)
(* follow them in ops.  m is the module the handler's search loop found    *)
(* (NoConn when it found none); ord is the order in which a range over     *)
(* the Plugins map visits its keys.                                        *)
(***************************************************************************)
Perms(S) == {f \in [1..Cardinality(S) -> S] : \A x \in S : \E i \in DOMAIN f : f[i] = x}

\* a slot check that lets every main-module registration through
SlotAlwaysFree(h, m) == FALSE

\* hub.go 499: another main module is active
MainModuleTaken(h, m) == h.MainModule # NoConn /\ h.MainModule # m

RECURSIVE OnlineOps(_, _, _, _)
\* hub.go 531-537: notify the new main module of every active plugin
OnlineOps(h, md, m, ord) ==
    IF ord = <<>> THEN <<>>
    ELSE LET p == h.Plugins[Head(ord)]
         IN (IF p # NoConn /\ md[p].IsActive /\ p # m
             THEN notifyPluginOnline(h, md, p) ELSE <<>>)
            \o OnlineOps(h, md, m, Tail(ord))

\* hub.go 495-538
handleMainModuleRegister(w, m, ord) ==
    IF MainModuleTaken(w.hub, m)
    THEN [w EXCEPT !.ops =
            <<Op("send", m, NewMessage(w.mod[m].ID, "error", w.mod[w.hub.MainModule].ID,
                                       "main_module_already_active")),
              Op("closeConn", m, NoMsg)>>]
    ELSE LET h1 == [w.hub EXCEPT !.MainModule = m]
             md1 == [w.mod EXCEPT ![m].ComponentType = "main_module"]
         IN [w EXCEPT !.hub = h1, !.mod = md1,
                      !.ops = <<Op("send", m, NewMessage(md1[m].ID, "registered", "",
                                                         "main_module_active"))>>
                              \o OnlineOps(h1, md1, m, ord)]

\* hub.go 541-581
handlePluginRegister(w, p) ==
    LET id == w.mod[p].ID
        h1 == [w.hub EXCEPT !.Plugins[id] = p]
        md1 == [w.mod EXCEPT ![p].ComponentType = "plugin"]
        isExpected == id \in w.hub.ExpectedPlugins
    IN [w EXCEPT !.hub = h1, !.mod = md1,
                 !.ops = <<Call("pmConnected", id),
                           Op("send", p, NewMessage(id, "registered", "", "plugin_active"))>>
                         \o (IF isExpected THEN notifyPluginOnline(h1, md1, p) ELSE <<>>)
                         \o <<Call("hmRegister", id)>>]

\* hub.go 222-243: the modules the two search loops can come up with
ExternalCandidates(w, msg) ==
    LET pend == {m \in w.hub.PendingModules :
                    w.mod[m].ID = "" \/ w.mod[m].ID = msg.from}
        plug == {m \in Conns : /\ \E k \in Keys : w.hub.Plugins[k] = m
                               /\ w.mod[m].ID = msg.from}
    IN IF pend # {} THEN pend ELSE plug

\* hub.go 206-304
handleExternalPluginRegister(w, msg, m) ==
    IF msg.pid = NoField \/ m = NoConn THEN w
    ELSE LET pluginID == msg.pid
             md1 == [w.mod EXCEPT ![m].ID = pluginID,
                                  ![m].ComponentType = "external_plugin",
                                  ![m].IsActive = TRUE]
             h1 == [w.hub EXCEPT
                       !.PendingModules = @ \ {m},
                       !.ExternalPlugins[pluginID] =
                           [exists |-> TRUE, Module |-> m, Status |-> "connected",
                            age |-> 0],
                       !.Plugins[pluginID] = m]
         IN [w EXCEPT !.hub = h1, !.mod = md1,
                      !.regSrc[m] = msg.src,
                      !.ops = <<Op("send", m, NewMessage(pluginID, "registered",
                                                         pluginID, "connected"))>>
                              \o notifyMainModuleExternalPluginStatus(h1, md1, pluginID)]

\* hub.go 161: the payload carries plugin_id and no id
IsExternalRegistration(msg) == msg.pid # NoField /\ msg.id = ""

\* hub.go 174-181: the pending modules the search loop can come up with
RegisterCandidates(w, msg) ==
    IF IsExternalRegistration(msg) THEN ExternalCandidates(w, msg)
    ELSE {m \in w.hub.PendingModules : w.mod[m].ID = "" \/ w.mod[m].ID = msg.id}

\* hub.go 149-203
handleRegister(w, msg, m, ord) ==
    IF IsExternalRegistration(msg) THEN handleExternalPluginRegister(w, msg, m)
    ELSE IF m = NoConn THEN w
    ELSE LET w1 == [w EXCEPT !.hub.PendingModules = @ \ {m},
                             !.mod[m].ID = msg.id,
                             !.mod[m].IsActive = TRUE,
                             !.regSrc[m] = msg.src]
         IN IF msg.ct = "main_module"
            THEN handleMainModuleRegister(w1, m, ord)
            ELSE handlePluginRegister(w1, m)

(***************************************************************************)
(* Teardown (hub.go 819-892).                                              *)
(***************************************************************************)
handleUnregister(w, m) ==
    LET id == w.mod[m].ID
        ct == w.mod[m].ComponentType
        md1 == [w.mod EXCEPT ![m].IsActive = FALSE]
        h0 == [w.hub EXCEPT !.PendingModules = @ \ {m}]
        closeSend == <<Op("close", m, NoMsg)>>
    IN  IF ct = "main_module"
        THEN [w EXCEPT !.hub = [h0 EXCEPT !.MainModule = NoConn], !.mod = md1,
                       !.ops = closeSend]
        ELSE IF ct = "external_plugin"
        THEN LET h1 == IF h0.ExternalPlugins[id].exists
                       THEN [h0 EXCEPT !.ExternalPlugins[id].Status = "disconnected",
                                       !.ExternalPlugins[id].Module = NoConn]
                       ELSE h0
                 note == IF h0.ExternalPlugins[id].exists
                         THEN notifyMainModuleExternalPluginStatus(h1, md1, id)
                         ELSE <<>>
             IN [w EXCEPT !.hub = [h1 EXCEPT !.Plugins[id] = NoConn], !.mod = md1,
                          !.ops = note \o closeSend]
        ELSE IF ct = "plugin" /\ h0.Plugins[id] # NoConn
        THEN LET h1 == [h0 EXCEPT !.Plugins[id] = NoConn]
                 isExpected == id \in h0.ExpectedPlugins
             IN [w EXCEPT !.hub = h1, !.mod = md1,
                          !.ops = notifyPluginOffline(h1, md1, m)
                                  \o <<Call("hmUnregister", id)>>
                                  \o (IF isExpected THEN <<Call("goRestart", id)>>
                                      ELSE <<>>)
                                  \o closeSend]
        ELSE [w EXCEPT !.hub = h0, !.mod = md1, !.ops = closeSend]

(***************************************************************************)
(* Routing (hub.go 895-938, 977-1010).  Every enqueue is a select with     *)
(* default.                                                                *)
(***************************************************************************)
\* an enqueue that waits for room
EnqueueBlocking(c, msg) == <<Op("send", c, msg)>>

\* hub.go 928-932, 952-957, 988-993: select { case Send <- data: default: }
Enqueue(c, msg) == <<Op("trysend", c, msg)>>

RECURSIVE PluginSends(_, _, _, _)
\* hub.go 996-1005
PluginSends(h, md, msg, ord) ==
    IF ord = <<>> THEN <<>>
    ELSE LET p == h.Plugins[Head(ord)]
         IN (IF p # NoConn /\ md[p].IsActive THEN Enqueue(p, msg) ELSE <<>>)
            \o PluginSends(h, md, msg, Tail(ord))

\* hub.go 977-1010
broadcastToAll(h, md, msg, ord) ==
    (IF MainModuleActive(h, md) THEN Enqueue(h.MainModule, msg) ELSE <<>>)
    \o PluginSends(h, md, msg, ord)

\* hub.go 1013-1026
hasCapability(md, m, capability) ==
    \E i \in 1..Len(md[m].Capabilities) : md[m].Capabilities[i] = capability

RECURSIVE ClassSends(_, _, _, _, _)
\* hub.go 961-970
ClassSends(h, md, msg, className, ord) ==
    IF ord = <<>> THEN <<>>
    ELSE LET p == h.Plugins[Head(ord)]
         IN (IF p # NoConn /\ md[p].IsActive /\ hasCapability(md, p, className)
             THEN Enqueue(p, msg) ELSE <<>>)
            \o ClassSends(h, md, msg, className, Tail(ord))

\* hub.go 941-975
broadcastToClass(h, md, msg, className, ord) ==
    (IF MainModuleActive(h, md) /\ hasCapability(md, h.MainModule, className)
     THEN Enqueue(h.MainModule, msg) ELSE <<>>)
    \o ClassSends(h, md, msg, className, ord)

\* hub.go 917-925
Destination(h, md, to) ==
    IF h.MainModule # NoConn /\ md[h.MainModule].ID = to THEN h.MainModule
    ELSE IF to \in Keys THEN h.Plugins[to]
    ELSE NoConn

\* hub.go 895-938
routeMessage(w, msg, ord) ==
    IF HasBroadcastPrefix(msg.to)
    THEN [w EXCEPT !.ops = broadcastToClass(w.hub, w.mod, msg,
                                            TrimBroadcastPrefix(msg.to), ord)]
    ELSE IF msg.to = "broadcast"
    THEN [w EXCEPT !.ops = broadcastToAll(w.hub, w.mod, msg, ord)]
    ELSE IF msg.to = "hub" THEN w
    ELSE LET destination == Destination(w.hub, w.mod, msg.to)
         IN IF destination # NoConn /\ w.mod[destination].IsActive
            THEN [w EXCEPT !.ops = Enqueue(destination, msg)]
            ELSE w

RECURSIVE AddClasses(_, _)
\* hub.go 737-753: every class name not yet in the list is appended
AddClasses(caps, classNames) ==
    IF classNames = <<>> THEN caps
    ELSE AddClasses(IF \E i \in 1..Len(caps) : caps[i] = Head(classNames)
                    THEN caps ELSE Append(caps, Head(classNames)),
                    Tail(classNames))

\* hub.go 773-779: the list without className
RemoveClass(caps, className) ==
    SelectSeq(caps, LAMBDA cap : cap # className)

\* hub.go 692-697, 766-771: the module an envelope's From resolves to
Sender(h, md, from) ==
    IF from \notin Keys THEN NoConn ELSE
    IF h.MainModule # NoConn /\ md[h.MainModule].ID = from THEN h.MainModule
    ELSE h.Plugins[from]

\* hub.go 687-754
handleSubscribe(w, msg) ==
    LET module == Sender(w.hub, w.mod, msg.from)
    IN IF module = NoConn \/ msg.class = <<>> THEN w
       ELSE [w EXCEPT !.mod[module].Capabilities = AddClasses(@, msg.class)]

\* hub.go 757-783
handleUnsubscribe(w, msg) ==
    LET module == Sender(w.hub, w.mod, msg.from)
    IN IF module = NoConn \/ Len(msg.class) # 1 THEN w
       ELSE [w EXCEPT !.mod[module].Capabilities = RemoveClass(@, msg.class[1])]

\* hub.go 641-684
handleHeartbeat(w, msg) ==
    LET module == Sender(w.hub, w.mod, msg.from)
    IN IF module = NoConn THEN w
       ELSE IF /\ w.mod[module].ComponentType = "external_plugin"
               /\ w.hub.ExternalPlugins[msg.from].exists
       THEN LET wasDisconnected == w.hub.ExternalPlugins[msg.from].Status # "connected"
                h1 == [w.hub EXCEPT !.ExternalPlugins[msg.from].age = 0,
                                    !.ExternalPlugins[msg.from].Status = "connected"]
            IN [w EXCEPT !.hub = h1,
                         !.ops = <<Call("hmHeartbeat", msg.from)>>
                                 \o (IF wasDisconnected
                                     THEN notifyMainModuleExternalPluginStatus(
                                              h1, w.mod, msg.from)
                                     ELSE <<>>)]
       ELSE [w EXCEPT !.ops = <<Call("hmHeartbeat", w.mod[module].ID)>>]

\* hub.go 601-636: the loop over the declared ids, from the i-th on
RECURSIVE DeclareFrom(_, _, _)
DeclareFrom(w, ids, i) ==
    IF i > Len(ids) THEN w
    ELSE LET id == ids[i]
             h1 == [w.hub EXCEPT !.ExpectedPlugins = @ \cup {id}]
         IN IF id = "" THEN DeclareFrom(w, ids, i + 1)
            ELSE DeclareFrom(
                     [w EXCEPT !.hub = h1,
                               !.ops = @ \o
                                   (IF PluginIsActive(h1, w.mod, id)
                                    THEN notifyPluginOnline(h1, w.mod, h1.Plugins[id])
                                    ELSE <<Call("goStart", id)>>)],
                     ids, i + 1)

\* a declaration that adds to the expected ids instead of replacing them
handleDeclareKeepsExpected(w, msg) == DeclareFrom(w, msg.plugins, 1)

\* hub.go 584-638: the sender of the envelope is not looked at
handleDeclareRequiredPlugins(w, msg) ==
    DeclareFrom([w EXCEPT !.hub.ExpectedPlugins = {}], msg.plugins, 1)

\* hub.go 118-146
handleMessage(w, msg, m, ord) ==
    IF msg.type = "register" THEN handleRegister(w, msg, m, ord)
    ELSE IF msg.type = "register_external_plugin"
    THEN handleExternalPluginRegister(w, msg, m)
    ELSE IF msg.type = "declare_required_plugins"
    THEN handleDeclareRequiredPlugins(w, msg)
    ELSE IF msg.type = "heartbeat" THEN handleHeartbeat(w, msg)
    ELSE IF msg.type = "subscribe" THEN handleSubscribe(w, msg)
    ELSE IF msg.type = "unsubscribe" THEN handleUnsubscribe(w, msg)
    ELSE routeMessage(w, msg, ord)

\* The orders in which msg's handler can visit the Plugins map, where it
\* ranges over it.
Orders(msg) ==
    IF \/ msg.type = "register" /\ msg.ct = "main_module"
       \/ /\ msg.type = "noop"
          /\ msg.to = "broadcast" \/ HasBroadcastPrefix(msg.to)
    THEN Perms(Keys)
    ELSE {<<>>}

\* The modules the search loop of msg's handler can find (NoConn: none).
Found(w, msg) ==
    LET c == IF msg.type = "register" THEN RegisterCandidates(w, msg)
             ELSE IF msg.type = "register_external_plugin" /\ msg.pid # NoField
             THEN ExternalCandidates(w, msg)
             ELSE {}
    IN IF c = {} THEN {NoConn} ELSE c

(***************************************************************************)
(* Channel operations of a handler, run in program order.  A blocking send *)
(* on a full queue stops the run: the Hub loop stays inside the handler    *)
(* until the queue has room.  A send on, or a close of, a closed channel   *)
(* panics.                                                                 *)
(***************************************************************************)
RECURSIVE Exec(_)
Exec(x) ==
    IF x.ops = <<>> \/ x.panic # "" THEN x
    ELSE LET o == Head(x.ops)
             rest == Tail(x.ops)
         IN CASE o.op = "send" ->
                    IF x.sendClosed[o.c] THEN [x EXCEPT !.panic = "send on closed channel"]
                    ELSE IF Len(x.send[o.c]) < x.cap[o.c]
                    THEN Exec([x EXCEPT !.send[o.c] = Append(@, o.m), !.ops = rest,
                                        !.sent = @ \cup {o.c}])
                    ELSE x
              [] o.op = "trysend" ->
                    IF x.sendClosed[o.c] THEN [x EXCEPT !.panic = "send on closed channel"]
                    ELSE IF Len(x.send[o.c]) < x.cap[o.c]
                    THEN Exec([x EXCEPT !.send[o.c] = Append(@, o.m), !.ops = rest,
                                        !.sent = @ \cup {o.c}])
                    ELSE Exec([x EXCEPT !.ops = rest, !.dropped = @ \cup {o.c}])
              [] o.op = "close" ->
                    IF x.sendClosed[o.c] THEN [x EXCEPT !.panic = "close of closed channel"]
                    ELSE Exec([x EXCEPT !.sendClosed[o.c] = TRUE, !.ops = rest])
              [] o.op = "closeConn" ->
                    Exec([x EXCEPT !.conn[o.c] =
                                       IF @ = "open" THEN "closing" ELSE @,
                                   !.ops = rest])
              [] o.op = "pmConnected" ->
                    Exec([x EXCEPT !.pm = PMSetConnected(@, o.m.id), !.ops = rest])
              [] o.op = "goRestart" ->
                    Exec([x EXCEPT !.pm = goRestartPlugin(@, o.m.id), !.ops = rest])
              [] o.op = "goStart" ->
                    Exec([x EXCEPT !.pm = goStartPlugin(@, o.m.id), !.ops = rest])
              [] o.op = "hmRegister" ->
                    Exec([x EXCEPT !.hm = RegisterPlugin(@, o.m.id), !.ops = rest])
              [] o.op = "hmUnregister" ->
                    Exec([x EXCEPT !.hm = UnregisterPlugin(@, o.m.id), !.ops = rest])
              [] o.op = "hmHeartbeat" ->
                    Exec([x EXCEPT !.hm = UpdateHeartbeat(@, o.m.id), !.ops = rest])

\* Whether the Hub loop is blocked in a send of the handler it is in.
HubBlocked ==
    /\ hubOps # <<>>
    /\ Head(hubOps).op = "send"
    /\ ~sendClosed[Head(hubOps).c]
    /\ Len(send[Head(hubOps).c]) >= mod[Head(hubOps).c].cap

\* The Hub loop is at its select (hub.go 93-94) and has not returned.
HubAtSelect == hubOps = <<>> /\ hubPanic = "" /\ ~hub.returned

\* no envelope handled
NoDelivery == [type |-> "", to |-> "", sent |-> {}, dropped |-> {}]

\* the Hub loop starts on envelope msg; only routed envelopes are recorded
Delivery(msg) ==
    IF msg.type = "noop"
    THEN [type |-> msg.type, to |-> msg.to, sent |-> {}, dropped |-> {}]
    ELSE NoDelivery

\* The state after the Hub loop ran the handler that produced w; d is the
\* history of the handler so far.
Handled(w, cn, d) ==
    LET x == Exec([ops |-> w.ops, send |-> send, sendClosed |-> sendClosed,
                   conn |-> cn, panic |-> "", pm |-> pm, hm |-> hm,
                   cap |-> [c \in Conns |-> w.mod[c].cap],
                   sent |-> d.sent, dropped |-> d.dropped])
    IN /\ delivery' = IF d.type = "" THEN NoDelivery
                       ELSE [d EXCEPT !.sent = x.sent, !.dropped = x.dropped]
       /\ hub' = [w.hub EXCEPT !.mu.waiting = FALSE]
       /\ mod' = w.mod
       /\ regSrc' = w.regSrc
       /\ hubOps' = x.ops
       /\ send' = x.send
       /\ sendClosed' = x.sendClosed
       /\ conn' = x.conn
       /\ hubPanic' = x.panic
       /\ pm' = x.pm
       /\ hm' = x.hm

(***************************************************************************)
(* The Hub loop (hub.go 82-115) and the peer tasks (module.go 41-144).     *)
(***************************************************************************)
InitHub ==
    /\ hub = NewHub
    /\ mod = [c \in Conns |-> NewModule]
    /\ conn = [c \in Conns |-> "absent"]
    /\ send = [c \in Conns |-> <<>>]
    /\ sendClosed = [c \in Conns |-> FALSE]
    /\ route = <<>>
    /\ hubOps = <<>>
    /\ hubPanic = ""
    /\ nframes = 0
    /\ regSrc = [c \in Conns |-> NoConn]
    /\ delivery = NoDelivery

Init ==
    /\ InitHub
    /\ pm = NewPluginManager(MaxMaxRestarts, TRUE)
    /\ hm = NewHealthMonitor

\* hub.go 95-102: a new connection is taken from Register; connections are
\* numbered in the order in which they are accepted
HubAccept(c) ==
    /\ HubAtSelect
    /\ hub.mu.readers = 0
    /\ conn[c] = "absent"
    /\ \A d \in Conns : d < c => conn[d] # "absent"
    /\ Handled(World([hub EXCEPT !.PendingModules = @ \cup {c}], mod, <<>>, regSrc),
               [conn EXCEPT ![c] = "open"], NoDelivery)
    /\ UNCHANGED <<route, nframes>>

\* hub.go 104-105: a module is taken from Unregister, where its reader task
\* waits after leaving its loop (module.go 42-45)
HubUnregister(c) ==
    /\ HubAtSelect
    /\ hub.mu.readers = 0
    /\ conn[c] = "closing"
    /\ Handled(handleUnregister(World(hub, mod, <<>>, regSrc), c),
               [conn EXCEPT ![c] = "gone"], NoDelivery)
    /\ UNCHANGED <<route, nframes>>

\* hub.go 172, 218, 585, 688, 763: the handlers that call h.mu.Lock(); the
\* others (hub.go 642, 896) call h.mu.RLock()
TakesWriteLock(msg) ==
    msg.type \in {"register", "register_external_plugin",
                  "declare_required_plugins", "subscribe", "unsubscribe"}

\* hub.go 107-108: a message is taken from Route
HubRoute ==
    /\ HubAtSelect
    /\ route # <<>>
    /\ IF TakesWriteLock(Head(route)) THEN hub.mu.readers = 0 ELSE ~hub.mu.waiting
    /\ \E m \in Found(World(hub, mod, <<>>, regSrc), Head(route)) :
       \E ord \in Orders(Head(route)) :
          Handled(handleMessage(World(hub, mod, <<>>, regSrc), Head(route), m, ord),
                  conn, Delivery(Head(route)))
    /\ route' = Tail(route)
    /\ UNCHANGED nframes

\* the send the Hub loop was blocked in goes through
HubResume ==
    /\ hubOps # <<>>
    /\ hubPanic = ""
    /\ ~HubBlocked
    /\ Handled(World(hub, mod, hubOps, regSrc), conn, delivery)
    /\ UNCHANGED <<route, nframes>>

\* ReadPump with a Route that hands out the newest envelope first
ReadPumpNewestFirst(c, f) ==
    /\ hubPanic = ""
    /\ conn[c] = "open"
    /\ nframes < MaxFrames
    /\ nframes' = nframes + 1
    /\ IF f.type = "ping"
       THEN \* module.go 130-141: answered locally with a blocking send
            /\ sendClosed[c] \/ Len(send[c]) < mod[c].cap
            /\ IF sendClosed[c]
               THEN /\ hubPanic' = "send on closed channel"
                    /\ UNCHANGED send
               ELSE /\ send' = [send EXCEPT ![c] =
                                   Append(@, NewMessage(mod[c].ID, "pong", "", ""))]
                    /\ UNCHANGED hubPanic
            /\ UNCHANGED route
       ELSE /\ Len(route) < hub.cap
            /\ route' = <<[f EXCEPT !.src = c, !.from = mod[c].ID]>> \o route
            /\ UNCHANGED <<send, hubPanic>>
    /\ UNCHANGED <<hub, mod, conn, sendClosed, hubOps, regSrc, delivery, pm, hm>>

\* module.go 56-96: the reader task takes frame f off the wire
ReadPump(c, f) ==
    /\ hubPanic = ""
    /\ conn[c] = "open"
    /\ nframes < MaxFrames
    /\ nframes' = nframes + 1
    /\ IF f.type = "ping"
       THEN \* module.go 130-141: answered locally with a blocking send
            /\ sendClosed[c] \/ Len(send[c]) < mod[c].cap
            /\ IF sendClosed[c]
               THEN /\ hubPanic' = "send on closed channel"
                    /\ UNCHANGED send
               ELSE /\ send' = [send EXCEPT ![c] =
                                   Append(@, NewMessage(mod[c].ID, "pong", "", ""))]
                    /\ UNCHANGED hubPanic
            /\ UNCHANGED route
       ELSE /\ Len(route) < hub.cap
            /\ route' = Append(route, [f EXCEPT !.src = c, !.from = mod[c].ID])
            /\ UNCHANGED <<send, hubPanic>>
    /\ UNCHANGED <<hub, mod, conn, sendClosed, hubOps, regSrc, delivery, pm, hm>>

\* module.go 59-66: ReadMessage fails (the peer went away, the read deadline
\* passed, or the writer task closed the connection after a failed write)
TransportClose(c) ==
    /\ hubPanic = ""
    /\ conn[c] = "open"
    /\ conn' = [conn EXCEPT ![c] = "closing"]
    /\ UNCHANGED <<hub, mod, send, sendClosed, route, hubOps, hubPanic, nframes,
                   regSrc, delivery, pm, hm>>

\* module.go 101-128: the writer task takes a frame from Send and writes it.
\* Once the transport is closed the write fails and the task returns: the
\* frame it took then is one it could have taken just before the close.
WritePump(c) ==
    /\ hubPanic = ""
    /\ conn[c] = "open"
    /\ send[c] # <<>>
    /\ send' = [send EXCEPT ![c] = Tail(@)]
    /\ UNCHANGED <<hub, mod, conn, sendClosed, route, hubOps, hubPanic, nframes,
                   regSrc, delivery, pm, hm>>

\* frames read off the wire during one run of the registration protocol
MaxRegFrames == 3

Next ==
    \/ \E c \in Conns : HubAccept(c)
    \/ \E c \in Conns : HubUnregister(c)
    \/ HubRoute
    \/ HubResume
    \/ \E c \in Conns : \E f \in Frames : nframes < MaxRegFrames /\ ReadPump(c, f)
    \/ \E c \in Conns : TransportClose(c)
    \/ \E c \in Conns : WritePump(c)

Spec == Init /\ [][Next]_vars

(***************************************************************************)
(* The Hub loop with peers that register and send envelopes of an opaque   *)
(* type (SpecRoute), and with peers that register, subscribe and send to   *)
(* a class (SpecSub).                                                      *)
(***************************************************************************)
\* a plugin "a", a main module "b" and an external plugin "b"
RouteRegisterFrames ==
    {Message(NoConn, "", "hub", "register", "a", NoField, ""),
     Message(NoConn, "", "hub", "register", "b", NoField, "main_module")}

RouteFrames ==
    RouteRegisterFrames \cup ExternalFrames
    \cup {f \in RoutedFrames : ~HasBroadcastPrefix(f.to)}

SubFrames ==
    RouteRegisterFrames \cup SubscribeFrames
    \cup {f \in RoutedFrames : HasBroadcastPrefix(f.to)}

\* frames read off the wire during one run of the routing protocol
MaxRouteFrames == 4

NextRoute ==
    \/ \E c \in Conns : HubAccept(c)
    \/ \E c \in Conns : HubUnregister(c)
    \/ HubRoute
    \/ HubResume
    \/ \E c \in Conns : \E f \in RouteFrames : nframes < MaxRouteFrames /\ ReadPump(c, f)
    \/ \E c \in Conns : TransportClose(c)
    \/ \E c \in Conns : WritePump(c)

SpecRoute == Init /\ [][NextRoute]_vars

NextSub ==
    \/ \E c \in Conns : HubAccept(c)
    \/ \E c \in Conns : HubUnregister(c)
    \/ HubRoute
    \/ HubResume
    \/ \E c \in Conns : \E f \in SubFrames : nframes < MaxRouteFrames /\ ReadPump(c, f)
    \/ \E c \in Conns : TransportClose(c)
    \/ \E c \in Conns : WritePump(c)

SpecSub == Init /\ [][NextSub]_vars

\* Two plugins that subscribe to one class and broadcast to it and to all.
CastFrames ==
    {Message(NoConn, "", "hub", "register", i, NoField, "") : i \in Ids}
    \cup {[Message(NoConn, "", "hub", "subscribe", "", NoField, "")
              EXCEPT !.class = <<"x">>]}
    \cup {Message(NoConn, "", t, "noop", "", NoField, "") :
              t \in {"broadcast", "broadcast:x"}}

\* The only blocking send with these frames is the registered confirmation,
\* to a queue that is still empty, so the Hub loop never waits in a send.
NextCast ==
    \/ \E c \in Conns : HubAccept(c)
    \/ \E c \in Conns : HubUnregister(c)
    \/ HubRoute
    \/ \E c \in Conns : \E f \in CastFrames : ReadPump(c, f)
    \/ \E c \in Conns : TransportClose(c)
    \/ \E c \in Conns : WritePump(c)

SpecCast == Init /\ [][NextCast]_vars

(***************************************************************************)
(* The Hub loop and the peer tasks under fair scheduling: the Hub loop     *)
(* takes a step when it can, and a writer task whose transport is up       *)
(* drains its queue.  The peers of this specification send pings and       *)
(* register.                                                               *)
(***************************************************************************)
LiveFrames ==
    PingFrames \cup {Message(NoConn, "", "hub", "register", "a", NoField, "")}

\* hub.go 93-109: one turn of the Hub loop
HubStep ==
    \/ \E c \in Conns : HubAccept(c)
    \/ \E c \in Conns : HubUnregister(c)
    \/ HubRoute
    \/ HubResume

NextLive ==
    \/ \E c \in Conns : HubAccept(c)
    \/ \E c \in Conns : HubUnregister(c)
    \/ HubRoute
    \/ HubResume
    \/ \E c \in Conns : \E f \in LiveFrames : ReadPump(c, f)
    \/ \E c \in Conns : TransportClose(c)
    \/ \E c \in Conns : WritePump(c)

SpecLive ==
    /\ Init
    /\ [][NextLive]_vars
    /\ WF_vars(HubStep)
    /\ \A c \in Conns : WF_vars(WritePump(c))

(***************************************************************************)
(* The supervisor's goroutines (plugin_manager.go 670-919, 971-984).       *)
(***************************************************************************)
InitPM ==
    /\ InitHub
    /\ hm = NewHealthMonitor
    /\ \E n \in 0..MaxMaxRestarts : \E r \in BOOLEAN :
          pm = NewPluginManager(n, r)

\* thread t of the supervisor is at pc
At(t, pc) == pm.panic = "" /\ pm.threads[t].pc = pc

\* the Hub, the health monitor or the HTTP API calls into the supervisor
PMCall(t, k, id) ==
    /\ pm.panic = ""
    /\ pm.calls < MaxCalls
    /\ t \in IdleThreads(pm)
    /\ \A u \in IdleThreads(pm) : t <= u
    /\ pm' = [Go(pm, t, k, id) EXCEPT !.calls = @ + 1]
    /\ UNCHANGED <<hubVars, hm>>

\* plugin_manager.go 686-698: the two checks StartPlugin makes without the lock
StartPluginCheck(t) ==
    /\ At(t, "st_check")
    /\ LET p == pm.plugins[pm.threads[t].id]
       IN pm' = IF AlreadyRunning(p) \/ RestartLimitReached(p)
                THEN [pm EXCEPT !.threads[t] = IdleThread]
                ELSE [pm EXCEPT !.threads[t].pc = "st_spawn"]
    /\ UNCHANGED <<hubVars, hm>>

\* plugin_manager.go 738-751: cmd.Start() and the bookkeeping under the lock
StartPluginSpawn(t) ==
    /\ At(t, "st_spawn")
    /\ \E k \in DOMAIN pm.os :
          /\ pm.os[k].st = "none"
          /\ \A j \in DOMAIN pm.os : j < k => pm.os[j].st # "none"
          /\ pm' = [pm EXCEPT !.os[k] = [NoProcess EXCEPT !.id = pm.threads[t].id,
                                                            !.st = "live"],
                              !.plugins[pm.threads[t].id] = Started(@, k),
                              !.threads[t].cmd = k,
                              !.threads[t].pc = "st_sleep"]
    /\ UNCHANGED <<hubVars, hm>>

\* plugin_manager.go 755-763: after the startup delay StartPlugin starts
\* monitorProcess and returns
StartPluginReturn(t) ==
    /\ At(t, "st_sleep")
    /\ pm' = [pm EXCEPT !.threads[t].pc = "mp_wait", !.threads[t].auto = FALSE,
                        !.threads[t].by = ""]
    /\ UNCHANGED <<hubVars, hm>>

\* the child exits by itself, with an error or normally
ProcessExit(k, how) ==
    /\ pm.panic = ""
    /\ pm.os[k].st = "live"
    /\ pm' = [pm EXCEPT !.os[k].st = how, !.os[k].late = pm.shuttingDown]
    /\ UNCHANGED <<hubVars, hm>>

\* plugin_manager.go 768-779: cmd.Wait() returned; the current exit channel
\* of the plugin is closed
monitorProcessClose(t) ==
    /\ At(t, "mp_wait")
    /\ pm.os[pm.threads[t].cmd].st \notin {"none", "live"}
    /\ LET id == pm.threads[t].id
           ch == pm.plugins[id].exitChan
       IN pm' = IF ch = NoProc THEN [pm EXCEPT !.threads[t].pc = "mp_status"]
                ELSE IF ch \in pm.closed
                THEN [pm EXCEPT !.panic = "close of closed channel"]
                ELSE [pm EXCEPT !.closed = @ \cup {ch},
                                !.plugins[id].exitChan = NoProc,
                                !.threads[t].pc = "mp_status"]
    /\ UNCHANGED <<hubVars, hm>>

\* plugin_manager.go 781-795
monitorProcessStatus(t) ==
    /\ At(t, "mp_status")
    /\ LET id == pm.threads[t].id
           err == pm.os[pm.threads[t].cmd].st # "exited"
       IN pm' = [pm EXCEPT !.plugins[id].Status = IF err THEN "error" ELSE "stopped",
                           !.plugins[id].LastError = IF err THEN TRUE ELSE @,
                           !.threads[t].pc = "mp_decide"]
    /\ UNCHANGED <<hubVars, hm>>

\* plugin_manager.go 797-816: the automatic restart
monitorProcessDecide(t) ==
    /\ At(t, "mp_decide")
    /\ pm' = IF shouldRestart(pm, pm.plugins[pm.threads[t].id])
             THEN [pm EXCEPT !.threads[t].pc = "st_check",
                             !.threads[t].cmd = NoProc,
                             !.threads[t].auto = TRUE,
                             !.threads[t].by = ""]
             ELSE [pm EXCEPT !.threads[t] = IdleThread]
    /\ UNCHANGED <<hubVars, hm>>

\* StopPlugin returns in thread t
StopPluginReturns(q, t) ==
    LET id == q.threads[t].id
    IN [q EXCEPT !.afterStop[id] = @ \/ ~ExplicitStartPending(q, id),
                 !.threads[t] = AfterStopPlugin(@)]

\* plugin_manager.go 821-847: nothing to stop, or the kill signal
StopPluginKill(t) ==
    /\ At(t, "sp_check")
    /\ LET id == pm.threads[t].id
           cmd == pm.plugins[id].Process
       IN pm' = IF cmd = NoProc THEN StopPluginReturns(pm, t)
                ELSE [pm EXCEPT !.os[cmd].st = IF @ = "live" THEN "killed" ELSE @,
                                !.os[cmd].late = IF pm.os[cmd].st = "live"
                                                 THEN pm.shuttingDown ELSE @,
                                !.threads[t].pc = "sp_read"]
    /\ UNCHANGED <<hubVars, hm>>

\* plugin_manager.go 851-863: the exit channel is read under the lock
StopPluginRead(t) ==
    /\ At(t, "sp_read")
    /\ LET id == pm.threads[t].id
           exitChan == pm.plugins[id].exitChan
       IN pm' = IF exitChan = NoProc
                THEN StopPluginReturns(
                         [pm EXCEPT !.plugins[id].Status = "stopped",
                                    !.plugins[id].Process = NoProc], t)
                ELSE [pm EXCEPT !.threads[t].ch = exitChan,
                                !.threads[t].pc = "sp_wait"]
    /\ UNCHANGED <<hubVars, hm>>

\* plugin_manager.go 865-877: the channel is closed, or 5 s have passed
StopPluginDone(t, timeout) ==
    /\ At(t, "sp_wait")
    /\ timeout \/ pm.threads[t].ch \in pm.closed
    /\ pm' = StopPluginReturns(
                 [pm EXCEPT !.plugins[pm.threads[t].id] = Stopped(@)], t)
    /\ UNCHANGED <<hubVars, hm>>

\* plugin_manager.go 897-901: StopAllPlugins raises the flag, then stops
\* every plugin
StopAllPlugins(t) ==
    /\ At(t, "sa_flag")
    /\ pm' = [pm EXCEPT !.shuttingDown = TRUE, !.threads[t].pc = "sp_check"]
    /\ UNCHANGED <<hubVars, hm>>

\* plugin_manager.go 971-984
ResetRestartCount(id) ==
    /\ pm.panic = ""
    /\ pm.calls < MaxCalls
    /\ pm.plugins[id].RestartCount > 0
    /\ pm' = [pm EXCEPT !.plugins[id].RestartCount = 0, !.calls = @ + 1]
    /\ UNCHANGED <<hubVars, hm>>

\* hub.go 553-561: the child connects to the Hub and registers
PluginRegisters(id) ==
    /\ pm.panic = ""
    /\ \E k \in LiveProcesses(pm, id) :
          /\ pm.os[k].peer = "none"
          /\ pm' = PMSetConnected([pm EXCEPT !.os[k].peer = "registered"], id)
    /\ UNCHANGED <<hubVars, hm>>

NextPM ==
    \/ \E t \in Threads : \E id \in Managed :
          \E k \in {"start", "stop", "restart", "stopall"} : PMCall(t, k, id)
    \/ \E t \in Threads : StartPluginCheck(t)
    \/ \E t \in Threads : StartPluginSpawn(t)
    \/ \E t \in Threads : StartPluginReturn(t)
    \/ \E k \in Procs : \E how \in {"crashed", "exited"} : ProcessExit(k, how)
    \/ \E t \in Threads : monitorProcessClose(t)
    \/ \E t \in Threads : monitorProcessStatus(t)
    \/ \E t \in Threads : monitorProcessDecide(t)
    \/ \E t \in Threads : StopPluginKill(t)
    \/ \E t \in Threads : StopPluginRead(t)
    \/ \E t \in Threads : \E timeout \in BOOLEAN : StopPluginDone(t, timeout)
    \/ \E t \in Threads : StopAllPlugins(t)
    \/ \E id \in Managed : ResetRestartCount(id)
    \/ \E id \in Managed : PluginRegisters(id)

SpecPM == InitPM /\ [][NextPM]_vars

(***************************************************************************)
(* The health monitor's loop (http.go 209-235, 307-364) next to the Hub    *)
(* loop, which feeds it registrations, heartbeats and disconnects.         *)
(***************************************************************************)
\* the frames the peers of this specification send
HMFrames ==
    {Message(NoConn, "", "hub", "register", "a", NoField, "")} \cup HeartbeatFrames

\* http.go 212-225: the check ticker fires
HMTick ==
    /\ hubPanic = ""
    /\ hm.now < MaxTicks * checkInterval
    /\ hm' = [hm EXCEPT !.now = @ + checkInterval, !.due = TRUE]
    /\ UNCHANGED <<hubVars, pm>>

\* where the check loop goes after it is done with one plugin
AfterCheck(m) == [m EXCEPT !.chk = [IdleCheck EXCEPT !.pc =
                                       IF m.todo = {} THEN "idle" ELSE "next"]]

\* http.go 307-318: the ids of the round are copied under the lock
checkAllPlugins ==
    /\ hubPanic = ""
    /\ hm.due
    /\ hm.chk.pc = "idle"
    /\ hm' = AfterCheck([hm EXCEPT !.due = FALSE,
                                   !.todo = {k \in Keys : hm.pluginHealth[k].exists}])
    /\ UNCHANGED <<hubVars, pm>>

\* http.go 321-331: the time since the last heartbeat is read under the lock
checkPluginHealthRead(id) ==
    /\ hubPanic = ""
    /\ hm.chk.pc = "next"
    /\ id \in hm.todo
    /\ LET m == [hm EXCEPT !.todo = @ \ {id}]
       IN hm' = IF ~hm.pluginHealth[id].exists THEN AfterCheck(m)
                ELSE [m EXCEPT !.chk = [pc |-> "hc_active", id |-> id,
                                        since |-> hm.now - hm.pluginHealth[id].LastHeartbeat,
                                        stale |-> FALSE]]
    /\ UNCHANGED <<hubVars, pm>>

\* http.go 333-345: the registry is read under the Hub's lock, then the time
\* read before is compared with the timeout
checkPluginHealthActive ==
    /\ hubPanic = ""
    /\ hm.chk.pc = "hc_active"
    /\ hm' = IF PluginIsActive(hub, mod, hm.chk.id) /\ hm.chk.since > heartbeatTimeout
             THEN [hm EXCEPT !.chk.pc = "hc_fail"]
             ELSE AfterCheck(hm)
    /\ UNCHANGED <<hubVars, pm>>

\* http.go 367-401: for an expected plugin a goroutine is started that
\* resets the failure count and restarts the plugin
handleUnhealthyPlugin(q, h, id) ==
    IF id \notin h.ExpectedPlugins \/ IdleThreads(q) = {} THEN q
    ELSE LET t == CHOOSE u \in IdleThreads(q) : \A v \in IdleThreads(q) : u <= v
         IN [q EXCEPT !.threads[t] =
                         [IdleThread EXCEPT !.pc = "hu_reset", !.id = id,
                                            !.next = "start",
                                            !.by = "handleUnhealthyPlugin"]]

\* http.go 346-362: the entry read before is marked unhealthy, and with
\* maxFailures failures in a row the plugin is handled as unhealthy
checkPluginHealthFail ==
    /\ hubPanic = ""
    /\ hm.chk.pc = "hc_fail"
    /\ hm' = AfterCheck(IF hm.chk.stale THEN hm
                        ELSE [hm EXCEPT !.pluginHealth[hm.chk.id].ConsecutiveFails = @ + 1,
                                        !.pluginHealth[hm.chk.id].IsHealthy = FALSE])
    /\ pm' = IF ~hm.chk.stale
                /\ hm.pluginHealth[hm.chk.id].ConsecutiveFails + 1 >= maxFailures
             THEN handleUnhealthyPlugin(pm, hub, hm.chk.id)
             ELSE pm
    /\ UNCHANGED hubVars

\* http.go 378-396: the goroutine resets the failure count of the entry the
\* map holds now and, for a plugin the supervisor manages, enters StopPlugin
handleUnhealthyReset(t) ==
    /\ At(t, "hu_reset")
    /\ LET id == pm.threads[t].id
       IN /\ hm' = IF hm.pluginHealth[id].exists
                   THEN [hm EXCEPT !.pluginHealth[id].ConsecutiveFails = 0]
                   ELSE hm
          /\ pm' = IF id \in Managed
                   THEN [pm EXCEPT !.threads[t].pc = "sp_check",
                                   !.afterStop[id] = FALSE]
                   ELSE [pm EXCEPT !.threads[t] = IdleThread]
    /\ UNCHANGED hubVars

\* With these frames a send-queue gets the registered confirmation and
\* nothing else, so the Hub loop never waits in a send.
NextHM ==
    \/ \E c \in Conns : HubAccept(c)
    \/ \E c \in Conns : HubUnregister(c)
    \/ HubRoute
    \/ \E c \in Conns : \E f \in HMFrames : nframes < MaxHMFrames /\ ReadPump(c, f)
    \/ \E c \in Conns : TransportClose(c)
    \/ \E c \in Conns : WritePump(c)
    \/ hm.now < MaxHMTicks * checkInterval /\ HMTick
    \/ checkAllPlugins
    \/ \E id \in Keys : checkPluginHealthRead(id)
    \/ checkPluginHealthActive
    \/ checkPluginHealthFail

SpecHM == Init /\ [][NextHM]_vars

\* Heartbeats of plugins and of external plugins that register under one id.
BeatFrames ==
    HMFrames
    \cup {Message(NoConn, "", "hub", "register_external_plugin", "", "a", "")}

\* ticks of the check ticker during one run with external plugins
MaxBeatTicks == 4

NextBeat ==
    \/ \E c \in Conns : HubAccept(c)
    \/ \E c \in Conns : HubUnregister(c)
    \/ HubRoute
    \/ \E c \in Conns : \E f \in BeatFrames : nframes < MaxHMFrames /\ ReadPump(c, f)
    \/ \E c \in Conns : TransportClose(c)
    \/ \E c \in Conns : WritePump(c)
    \/ hm.now < MaxBeatTicks * checkInterval /\ HMTick
    \/ checkAllPlugins
    \/ \E id \in Keys : checkPluginHealthRead(id)
    \/ checkPluginHealthActive
    \/ checkPluginHealthFail

SpecBeat == Init /\ [][NextBeat]_vars

(***************************************************************************)
(* A peer that registers, perhaps sends a heartbeat and is declared as     *)
(* required, and then stays connected and silent while the check ticker    *)
(* runs: the ticker's period is long against one round of checks.          *)
(***************************************************************************)
HealFrames ==
    {Message(NoConn, "", "hub", "register", "a", NoField, ""),
     Message(NoConn, "", "hub", "register_external_plugin", "", "a", ""),
     Message(NoConn, "", "hub", "heartbeat", "", NoField, ""),
     [Message(NoConn, "", "hub", "declare_required_plugins", "", NoField, "")
         EXCEPT !.plugins = <<"a">>]}

NextHeal ==
    \/ \E c \in Conns : HubAccept(c)
    \/ \E c \in Conns : HubUnregister(c)
    \/ HubRoute
    \/ \E c \in Conns : \E f \in HealFrames :
          hm.now = 0 /\ nframes < MaxHMFrames /\ ReadPump(c, f)
    \/ \E c \in Conns : TransportClose(c)
    \/ \E c \in Conns : WritePump(c)
    \/ /\ ~hm.due /\ hm.chk.pc = "idle"
       /\ HubAtSelect /\ route = <<>>
       /\ HMTick
    \/ checkAllPlugins
    \/ \E id \in Keys : checkPluginHealthRead(id)
    \/ checkPluginHealthActive
    \/ checkPluginHealthFail
    \/ \E t \in Threads : handleUnhealthyReset(t)

SpecHeal == Init /\ [][NextHeal]_vars

(***************************************************************************)
(* Peers.                                                                  *)
(***************************************************************************)
\* the connection was accepted and the Hub has not torn it down yet
Live(c) == conn[c] \in {"open", "closing"}

\* the connection is up and went through a registration that gave it a role
Active(c) == conn[c] = "open" /\ mod[c].IsActive /\ mod[c].ComponentType # ""

\* connection d was refused as a second main module
Refused(d) ==
    \E i \in 1..Len(send[d]) :
        send[d][i].type = "error" /\ send[d][i].ct = "main_module_already_active"

(***************************************************************************)
(* Properties of the registry and of the Hub loop, under Spec.             *)
(***************************************************************************)
\* C1: at most one peer holds the main-module role: every peer the Hub has
\* not torn down whose component type is main_module is the peer the
\* main-module slot references.
C1_SingleMainModule ==
    \A c \in Conns :
        Live(c) /\ mod[c].ComponentType = "main_module" => hub.MainModule = c

\* C1, the case: a main module holds the slot and a second peer that asked
\* for the role was refused.
C1_SecondMainModuleRefused ==
    \E c, d \in Conns :
        /\ c # d
        /\ hub.MainModule = c
        /\ Active(c)
        /\ mod[c].ComponentType = "main_module"
        /\ Refused(d)

\* C2: a register envelope affects only the peer that sent it: the envelope
\* that gave a module its id and role came in on that module's connection.
C2_RegisterAffectsOnlySender ==
    \A c \in Conns : regSrc[c] \in {NoConn, c}

\* C3: every peer stored in the plugins map has a non-empty id and is not
\* in the pending set.
C3_PluginsHaveIds ==
    \A k \in Keys :
        hub.Plugins[k] # NoConn =>
            /\ mod[hub.Plugins[k]].ID # ""
            /\ hub.Plugins[k] \notin hub.PendingModules

\* C4: no two active registered peers have the same id.
C4_UniqueIds ==
    \A c, d \in Conns :
        Active(c) /\ Active(d) /\ c # d => mod[c].ID # mod[d].ID

\* C5: no send-queue is written to after it has been closed.
C5_NoSendAfterClose == hubPanic # "send on closed channel"

\* C8: the Hub loop is never blocked by a slow consumer: it is never inside
\* a handler waiting for room in a peer's full send-queue.
C8_HubNeverBlocked == ~HubBlocked

\* the head of Route is a register for the main-module role, sent by a peer
\* other than the registered main module, and the Hub loop takes it
SecondMainModuleHandled ==
    IF route = <<>> THEN FALSE
    ELSE /\ route' = Tail(route)
         /\ Head(route).type = "register"
         /\ Head(route).ct = "main_module"
         /\ hub.MainModule # NoConn
         /\ Head(route).src # hub.MainModule

\* the Hub has enqueued o for connection d, or is in the send that does so
Pending(o, d) ==
    \E i \in 1..Len(hubOps) : hubOps[i].op = o /\ hubOps[i].c = d

\* C12: when a main module is registered and a second peer sends register
\* with component_type main_module, the second peer is sent an error
\* envelope with code main_module_already_active and is disconnected, the
\* slot still references the first peer and the plugins map is unchanged.
C12_SecondMainModuleRejected ==
    [][IF SecondMainModuleHandled
       THEN \E d \in Conns :
               /\ d = Head(route).src
               /\ hub'.MainModule = hub.MainModule
               /\ hub'.Plugins = hub.Plugins
               /\ Refused(d)' \/ Pending("send", d)'
               /\ conn'[d] = "closing" \/ Pending("closeConn", d)'
       ELSE TRUE]_vars

(***************************************************************************)
(* Teardown, under SpecLive.                                               *)
(***************************************************************************)
\* C11: the send-queue of an accepted peer whose transport has closed is
\* closed exactly once: it is never closed twice, and it does get closed.
C11_SendClosedExactlyOnce ==
    /\ [](hubPanic # "close of closed channel")
    /\ \A c \in Conns : (conn[c] = "closing") ~> sendClosed[c]

(***************************************************************************)
(* Properties of the supervisor, under SpecPM.                             *)
(***************************************************************************)
\* C6: for every plugin id there is at most one live OS process at any
\* time.
C6_OneLiveProcess ==
    \A id \in Managed : Cardinality(LiveProcesses(pm, id)) <= 1

\* C7: the restart counter never exceeds max_restarts, and it never
\* decreases except through ResetRestartCount.
C7_RestartCounter ==
    /\ [](\A id \in Managed :
              pm.plugins[id].RestartCount <= pm.plugins[id].MaxRestarts)
    /\ [][\A id \in Managed :
              pm'.plugins[id].RestartCount < pm.plugins[id].RestartCount
                  => ResetRestartCount(id)]_vars

\* C9: once StopPlugin(id) has returned, and until some caller explicitly
\* starts id again, id has no live process and its status is stopped or
\* error.
C9_StoppedStaysStopped ==
    \A id \in Managed :
        pm.afterStop[id] =>
            /\ LiveProcesses(pm, id) = {}
            /\ pm.plugins[id].Status \in {"stopped", "error"}

(***************************************************************************)
(* Properties of the health monitor, under SpecHM.                         *)
(***************************************************************************)
\* C10: for every health entry whose peer is active, the healthy flag is
\* true exactly when the time since the last heartbeat is at most the
\* heartbeat timeout.
C10_HealthyIffFresh ==
    \A id \in Keys :
        hm.pluginHealth[id].exists /\ PluginIsActive(hub, mod, id) =>
            (hm.pluginHealth[id].IsHealthy <=>
                 hm.now - hm.pluginHealth[id].LastHeartbeat <= heartbeatTimeout)

(***************************************************************************)
(* Properties of routing, under SpecRoute and SpecSub.                     *)
(***************************************************************************)
\* this step of the Hub loop takes a routed envelope off the route queue
Routed ==
    IF route = <<>> THEN FALSE
    ELSE route' = Tail(route) /\ Head(route).type = "noop"

\* connection c is an active registered plugin peer
PluginPeer(c) ==
    Active(c) /\ mod[c].ComponentType \in {"plugin", "external_plugin"}

\* the step appends the envelope it handles to the send queue of c
Gets(c) == send'[c] = Append(send[c], Head(route))

\* C13: when the Hub handles an opaque envelope from registered peer A whose
\* to is the id of active registered peer B, and B's send queue has room,
\* the envelope is appended to B's send queue exactly once, with from equal
\* to A's id, and to no other send queue.
C13_UnicastToOnePeer ==
    [][IF Routed
       THEN \A A, B \in Conns :
               (/\ Head(route).src = A
                /\ Active(A)
                /\ Active(B)
                /\ Head(route).to \in Ids
                /\ Head(route).to = mod[B].ID
                /\ Len(send[B]) < SendCap)
               => /\ Gets(B)
                  /\ Head(route).from = mod[A].ID
                  /\ \A c \in Conns \ {B} : send'[c] = send[c]
       ELSE TRUE]_vars

\* C15: an envelope whose to is empty is handled as one whose to is
\* "broadcast": it is appended to the send queue of every active plugin
\* peer that the registry holds and whose queue has room.
C15_EmptyToIsBroadcast ==
    [][IF Routed
       THEN Head(route).to \in {"", "broadcast"} =>
               \A c \in Conns :
                   (/\ \E k \in Keys : hub.Plugins[k] = c
                    /\ PluginPeer(c)
                    /\ Len(send[c]) < SendCap) => Gets(c)
       ELSE TRUE]_vars

\* C16: a wildcard broadcast is not delivered to the main module.
C16_BroadcastSkipsMainModule ==
    [][IF Routed
       THEN Head(route).to = "broadcast" =>
               \A c \in Conns :
                   (c = hub.MainModule /\ mod[c].ComponentType = "main_module")
                       => send'[c] = send[c]
       ELSE TRUE]_vars

\* the registry holds c as the main module or under some key of Plugins
Held(c) == c = hub.MainModule \/ \E k \in Keys : hub.Plugins[k] = c

\* hub.go 953 and 961, 986 and 997: the peers a broadcast to destination to
\* is meant for
Intended(c, to) ==
    /\ Held(c)
    /\ mod[c].IsActive
    /\ HasBroadcastPrefix(to) => hasCapability(mod, c, TrimBroadcastPrefix(to))

\* C17: when the Hub handles a wildcard broadcast or a class multicast, every
\* intended recipient whose send queue has room gets the frame appended, and
\* a recipient whose queue is full keeps its queue; the Hub loop neither
\* blocks nor fails, whatever the order in which the recipients are visited.
C17_FullRecipientLosesOnlyItsCopy ==
    [][IF Routed
       THEN (Head(route).to = "broadcast" \/ HasBroadcastPrefix(Head(route).to)) =>
               /\ hubOps' = <<>>
               /\ hubPanic' = hubPanic
               /\ \A c \in Conns :
                      Intended(c, Head(route).to) =>
                          IF Len(send[c]) < SendCap
                          THEN /\ Len(send'[c]) > Len(send[c])
                               /\ SubSeq(send'[c], 1, Len(send[c]) + 1)
                                      = Append(send[c], Head(route))
                          ELSE send'[c] = send[c]
       ELSE TRUE]_vars

\* witness of C17: the last broadcast found one queue full and appended to
\* another
C17_OneDroppedOtherDelivered ==
    /\ delivery.to = "broadcast" \/ HasBroadcastPrefix(delivery.to)
    /\ delivery.dropped # {}
    /\ delivery.sent # {}
    /\ delivery.dropped \cap delivery.sent = {}

\* C14: when the Hub handles an envelope with to = broadcast:<class>, the
\* envelope is appended to the send queue of every active peer whose
\* capabilities contain <class> (and whose queue has room), to the queue of
\* no peer without that capability, and the registry is unchanged.
C14_ClassMulticast ==
    [][IF Routed
       THEN HasBroadcastPrefix(Head(route).to) =>
               /\ hub' = hub
               /\ hubPanic' = hubPanic
               /\ \A c \in Conns :
                      IF hasCapability(mod, c, TrimBroadcastPrefix(Head(route).to))
                      THEN (Active(c) /\ Len(send[c]) < SendCap) => Gets(c)
                      ELSE send'[c] = send[c]
       ELSE TRUE]_vars

\* the number of times class c occurs in the capability list caps
Occurrences(caps, c) == Cardinality({i \in 1..Len(caps) : caps[i] = c})

\* C18: when the Hub handles subscribe from a registered peer, every class
\* of the payload occurs at most once in the peer's capabilities afterwards,
\* and the capabilities are unchanged if they already held every class of
\* the payload; when it handles unsubscribe(c), c is absent from the peer's
\* capabilities afterwards, and the capabilities are unchanged if c was
\* absent.
C18_SubscriptionLaws ==
    [][IF route = <<>> THEN TRUE
       ELSE \A p \in Conns :
               (route' = Tail(route) /\ Head(route).src = p /\ Active(p)) =>
                   /\ Head(route).type = "subscribe" =>
                          /\ \A c \in Classes :
                                 Occurrences(mod'[p].Capabilities, c) <= 1
                          /\ (\A i \in 1..Len(Head(route).class) :
                                  hasCapability(mod, p, Head(route).class[i]))
                                 => mod'[p].Capabilities = mod[p].Capabilities
                   /\ Head(route).type = "unsubscribe" =>
                          /\ \A i \in 1..Len(Head(route).class) :
                                 ~hasCapability(mod', p, Head(route).class[i])
                          /\ (\A i \in 1..Len(Head(route).class) :
                                  ~hasCapability(mod, p, Head(route).class[i]))
                                 => mod'[p].Capabilities = mod[p].Capabilities]_vars

(***************************************************************************)
(* Heartbeats, under SpecHM.                                               *)
(***************************************************************************)
\* C19: when the Hub handles a heartbeat envelope from a registered peer
\* whose id has a health entry, that entry is healthy afterwards, its
\* consecutive-failure count is zero and its heartbeat count is one higher.
C19_HeartbeatRefreshesEntry ==
    [][IF route = <<>> THEN TRUE
       ELSE \A p \in Conns : \A id \in Keys :
               (/\ route' = Tail(route)
                /\ Head(route).type = "heartbeat"
                /\ Head(route).src = p
                /\ Active(p)
                /\ mod[p].ID = id
                /\ hm.pluginHealth[id].exists)
               => /\ hm'.pluginHealth[id].exists
                  /\ hm'.pluginHealth[id].IsHealthy
                  /\ hm'.pluginHealth[id].ConsecutiveFails = 0
                  /\ hm'.pluginHealth[id].HeartbeatCount
                         = hm.pluginHealth[id].HeartbeatCount + 1]_vars

(***************************************************************************)
(* The restart limit, under SpecPM.                                        *)
(***************************************************************************)
\* C20: while a plugin's restart counter has reached max_restarts (and is
\* positive, so that the first start is not counted), no StartPlugin call
\* spawns a process for it.
C20_NoSpawnAtRestartLimit ==
    [][\A t \in Threads :
          (At(t, "st_spawn") /\ pm'.threads[t].pc = "st_sleep") =>
              ~RestartLimitReached(pm.plugins[pm.threads[t].id])]_vars

(***************************************************************************)
(* Envelopes with a sender-supplied from, and status requests.             *)
(***************************************************************************)
EnvFrames ==
    {Message(NoConn, "b", "hub", "register", "a", NoField, ""),
     Message(NoConn, "b", "a", "noop", "", NoField, ""),
     Message(NoConn, "", "hub", "get_plugin_status", "", NoField, "")}

\* The only blocking send with these frames is the registered confirmation,
\* to a queue that is still empty, so the Hub loop never waits in a send.
NextEnv ==
    \/ \E c \in Conns : HubAccept(c)
    \/ \E c \in Conns : HubUnregister(c)
    \/ HubRoute
    \/ \E c \in Conns : \E f \in EnvFrames : nframes < MaxRegFrames /\ ReadPump(c, f)
    \/ \E c \in Conns : TransportClose(c)
    \/ \E c \in Conns : WritePump(c)

SpecEnv == Init /\ [][NextEnv]_vars

\* C27: when the Hub handles get_plugin_status from a registered peer whose
\* send queue has room, a reply is appended to that peer's send queue.
C27_StatusReply ==
    [][IF route = <<>> THEN TRUE
       ELSE \A d \in Conns :
               (/\ route' = Tail(route)
                /\ Head(route).type = "get_plugin_status"
                /\ Head(route).src = d
                /\ Active(d)
                /\ Len(send[d]) < SendCap)
               => /\ Len(send'[d]) = Len(send[d]) + 1
                  /\ send'[d][Len(send'[d])].from = "hub"]_vars

\* C28: the envelope the reader of peer c puts on Route has from equal to
\* the id of c if c is registered, and the from the sender supplied if c is
\* still unregistered.
C28_FromOfSender ==
    [][\A c \in Conns : \A f \in EnvFrames :
          (nframes < MaxRegFrames /\ ReadPump(c, f)) =>
              route'[Len(route')].from =
                  IF mod[c].IsActive THEN mod[c].ID ELSE f.from]_vars

(***************************************************************************)
(* Registration errors and terminal roles, under Spec.                     *)
(***************************************************************************)
\* the Hub queued or is about to queue a registered confirmation to d
Confirmed(d) ==
    \/ \E i \in 1..Len(send[d]) : send[d][i].type = "registered"
    \/ \E i \in 1..Len(hubOps) :
           hubOps[i].op = "send" /\ hubOps[i].c = d /\ hubOps[i].m.type = "registered"

\* C24: when the Hub handles a register envelope that carries neither id nor
\* plugin_id, the sending peer is dropped from pending, is in no slot of the
\* registry, gets no registered confirmation, and is closed.
C24_MissingIdIsFatal ==
    [][IF route = <<>> THEN TRUE
       ELSE \A d \in Conns :
               (/\ route' = Tail(route)
                /\ Head(route).type = "register"
                /\ Head(route).id = ""
                /\ Head(route).pid = NoField
                /\ Head(route).src = d
                /\ d \in hub.PendingModules)
               => /\ d \notin hub'.PendingModules
                  /\ hub'.MainModule # d
                  /\ \A k \in Keys : hub'.Plugins[k] # d
                  /\ \A k \in Keys : hub'.ExternalPlugins[k].Module # d
                  /\ ~Confirmed(d)'
                  /\ conn'[d] = "closing" \/ Pending("closeConn", d)']_vars

\* the keys of the Plugins map that hold connection c
KeysOf(h, c) == {k \in Keys : h.Plugins[k] = c}

\* C30: once a peer is registered, no envelope the Hub handles changes its
\* id or its role, and the peer is the main module or is stored under
\* exactly one key of the Plugins map.
C30_RoleIsTerminal ==
    [][\A c \in Conns :
          (/\ route # <<>>
           /\ route' = Tail(route)
           /\ Active(c)
           /\ c = hub.MainModule \/ Cardinality(KeysOf(hub, c)) = 1)
          => /\ mod'[c].ID = mod[c].ID
             /\ mod'[c].ComponentType = mod[c].ComponentType
             /\ c = hub'.MainModule \/ Cardinality(KeysOf(hub', c)) = 1]_vars



(***************************************************************************)
(* The supervisor as the Hub drives it: the main module declares the       *)
(* plugin as required (hub.go 616-627), its children register (hub.go      *)
(* 553-561) and lose their connections (hub.go 866-883), and main calls    *)
(* StopAllPlugins at shutdown.  The plugin stays in ExpectedPlugins.       *)
(***************************************************************************)
\* goroutines inside the supervisor at one time
MaxDownThreads == 3
\* children spawned during one run
MaxDownProcs == 2

DownThreads == 1..MaxDownThreads
DownProcs == 1..MaxDownProcs

InitDown ==
    /\ InitHub
    /\ hm = NewHealthMonitor
    /\ \E n \in 1..MaxMaxRestarts :
          pm = [NewPluginManager(n, TRUE)
                   EXCEPT !.threads = [t \in DownThreads |-> IdleThread],
                          !.os = [k \in DownProcs |-> NoProcess]]

\* hub.go 616-627: declare_required_plugins names the plugin, which is not
\* connected
PluginDeclared(id) ==
    /\ pm.panic = ""
    /\ pm.calls = 0
    /\ IdleThreads(pm) # {}
    /\ pm' = [goStartPlugin(pm, id) EXCEPT !.calls = 1]
    /\ UNCHANGED <<hubVars, hm>>

\* hub.go 866-883: the connection of child k is torn down and the Hub, for
\* an expected plugin, requests a restart
PluginDisconnects(k) ==
    /\ pm.panic = ""
    /\ pm.os[k].peer = "registered"
    /\ pm.shuttingDown \/ IdleThreads(pm) # {}
    /\ pm' = goRestartPlugin([pm EXCEPT !.os[k].peer = "closed"], pm.os[k].id)
    /\ UNCHANGED <<hubVars, hm>>

\* StopAllPlugins is called, once
Shutdown(t) ==
    /\ pm.panic = ""
    /\ ~pm.down
    /\ t \in IdleThreads(pm)
    /\ \A u \in IdleThreads(pm) : t <= u
    /\ \E id \in Managed : pm' = [Go(pm, t, "stopall", id) EXCEPT !.down = TRUE]
    /\ UNCHANGED <<hubVars, hm>>

NextDown ==
    \/ \E id \in Managed : PluginDeclared(id)
    \/ \E id \in Managed : PluginRegisters(id)
    \/ \E k \in DownProcs : PluginDisconnects(k)
    \/ \E t \in DownThreads : Shutdown(t)
    \/ \E t \in DownThreads : StartPluginCheck(t)
    \/ \E t \in DownThreads : StartPluginSpawn(t)
    \/ \E t \in DownThreads : StartPluginReturn(t)
    \/ \E k \in DownProcs : \E how \in {"crashed", "exited"} : ProcessExit(k, how)
    \/ \E t \in DownThreads : monitorProcessClose(t)
    \/ \E t \in DownThreads : monitorProcessStatus(t)
    \/ \E t \in DownThreads : monitorProcessDecide(t)
    \/ \E t \in DownThreads : StopPluginKill(t)
    \/ \E t \in DownThreads : StopPluginRead(t)
    \/ \E t \in DownThreads : \E timeout \in BOOLEAN : StopPluginDone(t, timeout)
    \/ \E t \in DownThreads : StopAllPlugins(t)

SpecDown == InitDown /\ [][NextDown]_vars

\* C29: when a peer whose id names a supervised local plugin registers, the
\* supervisor status of that plugin becomes "online", and a StartPlugin call
\* that makes its checks while the plugin is registered (its status is the
\* one registration gave it and its child lives) goes no further: it is
\* rejected as already running.
C29_RegisteredIsOnline ==
    [][/\ \A id \in Managed :
             PluginRegisters(id) => pm'.plugins[id].Status = "online"
       /\ \A t \in Threads :
             (/\ StartPluginCheck(t)
              /\ pm.plugins[pm.threads[t].id].Status \in {"online", "connected"}
              /\ LiveProcesses(pm, pm.threads[t].id) # {})
             => pm'.threads[t].pc # "st_spawn"]_vars


\* C21: shutdown disables auto-restart: once a child of a plugin has exited
\* after StopAllPlugins raised the shutdown flag, no new child of that
\* plugin is spawned, neither by monitorProcess's automatic restart nor by
\* the restart the Hub requested when the child's connection was torn down.
C21_NoRespawnAfterShutdown ==
    [][\A t \in DownThreads :
          (/\ StartPluginSpawn(t)
           /\ pm.threads[t].auto \/ pm.threads[t].by = "handleUnregister")
          => \A k \in DownProcs :
                pm.os[k].id = pm.threads[t].id => ~pm.os[k].late]_vars


\* the children of plugin id spawned so far
Spawned(q, id) == {k \in DOMAIN q.os : q.os[k].id = id /\ q.os[k].st # "none"}

\* every exit of a child of plugin id was seen by its monitorProcess
ExitsRecorded(q, id) ==
    \A t \in DOMAIN q.threads :
        q.threads[t].id = id =>
            q.threads[t].pc \notin {"st_sleep", "mp_wait", "mp_status"}

\* C22: for a plugin with restart_on_crash and max_restarts = N whose
\* children all exit with an error, outside shutdown: once N children have
\* crashed no further child is started, and once those exits are recorded
\* the status is "error" with restart_count = N and last_error set, also
\* when the Hub handles the disconnects of the expected plugin.
C22_CrashRestartCap ==
    \A id \in Managed :
        LET p == pm.plugins[id]
            crashed == {k \in Spawned(pm, id) : pm.os[k].st = "crashed"}
        IN (/\ pm.panic = ""
            /\ ~pm.down
            /\ p.RestartOnCrash
            /\ \A k \in Spawned(pm, id) : pm.os[k].st \in {"live", "crashed"}
            /\ Cardinality(crashed) >= p.MaxRestarts)
           => /\ Cardinality(Spawned(pm, id)) = p.MaxRestarts
              /\ ExitsRecorded(pm, id)
                 => /\ p.Status = "error"
                    /\ p.RestartCount = p.MaxRestarts
                    /\ p.LastError


(***************************************************************************)
(* The Hub loop with a main module that declares its required plugins.     *)
(***************************************************************************)
DeclFrames ==
    {Message(NoConn, "", "hub", "register", "b", NoField, "main_module"),
     Message(NoConn, "", "hub", "register", "a", NoField, "")}
    \cup {[Message(NoConn, "", "hub", "declare_required_plugins", "", NoField, "")
              EXCEPT !.plugins = l] : l \in {<<>>, <<"a">>}}

NextDecl ==
    \/ \E c \in Conns : HubAccept(c)
    \/ \E c \in Conns : HubUnregister(c)
    \/ HubRoute
    \/ HubResume
    \/ \E c \in Conns : \E f \in DeclFrames : nframes < MaxRegFrames /\ ReadPump(c, f)
    \/ \E c \in Conns : TransportClose(c)
    \/ \E c \in Conns : WritePump(c)

SpecDecl == Init /\ [][NextDecl]_vars

\* C25: declare_required_plugins is main-module-only: when the Hub handles
\* the envelope and its sender is not the registered main module, the
\* expected plugin ids are unchanged and no supervisor start is requested.
C25_DeclareMainModuleOnly ==
    [][IF route = <<>> THEN TRUE
       ELSE \A d \in Conns :
               (/\ route' = Tail(route)
                /\ Head(route).type = "declare_required_plugins"
                /\ Head(route).src = d
                /\ hub.MainModule # d)
               => /\ hub'.ExpectedPlugins = hub.ExpectedPlugins
                  /\ pm' = pm]_vars

\* the plugin_online envelopes for plugin id that queue q holds and that the
\* sends in ops will put on connection d
Online(q, ops, d, id) ==
    Cardinality({i \in 1..Len(q) : q[i].type = "plugin_online" /\ q[i].id = id})
    + Cardinality({i \in 1..Len(ops) :
                      /\ ops[i].op = "send" /\ ops[i].c = d
                      /\ ops[i].m.type = "plugin_online" /\ ops[i].m.id = id})

\* the ids of a declare_required_plugins payload
Declared(msg) == {msg.plugins[i] : i \in 1..Len(msg.plugins)}

Remediation(th, id) ==
    /\ th.by = "handleUnhealthyPlugin"
    /\ th.id = id
    /\ th.pc = "hu_reset"
    /\ th.next = "start"
    /\ id \in Managed

\* C23: when a check brings the consecutive failures of an active peer, the
\* only one with its id, to maxFailures, then for a local plugin that is expected a goroutine is
\* started that resets the failure count and calls StopPlugin followed by
\* StartPlugin (where the supervisor has room for one), and for an external
\* plugin or a plugin that is not expected no such goroutine is started.
C23_HealthRemediation ==
    [][/\ \A id \in Keys :
             (/\ hm.chk.pc = "hc_fail" /\ hm'.chk.pc # "hc_fail"
              /\ hm.chk.id = id /\ ~hm.chk.stale
              /\ hub' = hub /\ mod' = mod
              /\ hm'.pluginHealth[id].ConsecutiveFails >= maxFailures
              /\ PluginIsActive(hub, mod, id)
              /\ \A c \in Conns : mod[c].ID = id => c = hub.Plugins[id])
             => IF /\ mod[hub.Plugins[id]].ComponentType = "plugin"
                   /\ id \in Managed
                   /\ id \in hub.ExpectedPlugins
                THEN IdleThreads(pm) # {}
                        => \E t \in IdleThreads(pm) : Remediation(pm'.threads[t], id)
                ELSE \A t \in Threads :
                        Remediation(pm'.threads[t], id)
                           => Remediation(pm.threads[t], id)
       /\ \A t \in Threads :
             handleUnhealthyReset(t)
             => /\ hm'.pluginHealth[pm.threads[t].id].ConsecutiveFails = 0
                /\ pm.threads[t].id \in Managed
                   => /\ pm'.threads[t].pc = "sp_check"
                      /\ pm'.threads[t].next = "start"]_vars


\* StopAllPlugins has raised the flag and its StopPlugin calls have returned
StopAllReturned(q) ==
    /\ q.shuttingDown
    /\ \A t \in DOMAIN q.threads :
          ~(q.threads[t].by = "" /\ q.threads[t].pc \in {"sp_check", "sp_read", "sp_wait"})

\* C40: once StopAllPlugins has set the shutting-down flag no child process
\* is spawned for any plugin, whether by a monitorProcess waiting out its
\* restart delay, by a RestartPlugin the Hub requested or by a remediation,
\* and after StopAllPlugins has returned no supervised process is live.
C40_NoSpawnOnceShuttingDown ==
    [][/\ \A t \in DownThreads : StartPluginSpawn(t) => ~pm.shuttingDown
       /\ StopAllReturned(pm') => \A id \in Managed : LiveProcesses(pm', id) = {}]_vars


\* C36: the exit channel created for a started child is closed at most once
\* (a second close panics), and a StopPlugin that waits on a child's channel
\* is woken only by the monitorProcess of that same child.
C36_ExitChannelOfOwnChild ==
    [][\A t \in DownThreads :
          monitorProcessClose(t)
          => /\ pm'.panic = ""
             /\ \A u \in DownThreads :
                   (/\ pm.threads[u].pc = "sp_wait"
                    /\ pm.threads[u].ch \in pm'.closed \ pm.closed)
                   => pm.threads[u].ch = pm.threads[t].cmd]_vars


\* C31: when the Hub has handled the disconnect of a registered peer of any
\* role, and no other connected peer is registered under the same id, the
\* health monitor holds no entry for that id.
C31_HealthEntryRemoved ==
    [][\A c \in Conns :
          (/\ conn[c] = "closing" /\ conn'[c] = "gone"
           /\ hubOps' = <<>> /\ hubPanic' = ""
           /\ mod[c].ComponentType # ""
           /\ \A d \in Conns \ {c} : ~(mod[d].IsActive /\ mod[d].ID = mod[c].ID))
          => ~hm'.pluginHealth[mod[c].ID].exists]_vars


\* the plugin_offline envelopes for plugin id that queue q holds and that the
\* sends in ops will put on connection d
Offline(q, ops, d, id) ==
    Cardinality({i \in 1..Len(q) : q[i].type = "plugin_offline" /\ q[i].id = id})
    + Cardinality({i \in 1..Len(ops) :
                      /\ ops[i].op = "send" /\ ops[i].c = d
                      /\ ops[i].m.type = "plugin_offline" /\ ops[i].m.id = id})

\* C32: when the Hub handles the disconnect of a registered local plugin,
\* the plugin is no longer in the plugins map, one more plugin_offline for
\* it goes to the main module if one is active, and a RestartPlugin
\* goroutine is started (where the supervisor has room for one) if and only
\* if the plugin's id is expected and the supervisor is not shutting down.
C32_LocalPluginDisconnect ==
    [][\A c \in Conns :
          (/\ conn[c] = "closing" /\ conn'[c] = "gone"
           /\ mod[c].ComponentType = "plugin"
           /\ mod[c].IsActive
           /\ IdleThreads(pm) # {})
          => /\ \A k \in Keys : hub'.Plugins[k] # c
             /\ \A d \in Conns :
                   (hub.MainModule = d /\ mod[d].IsActive)
                   => Offline(send'[d], hubOps', d, mod[c].ID)
                         = Offline(send[d], <<>>, d, mod[c].ID) + 1
             /\ (\/ \E t \in IdleThreads(pm) :
                       pm'.threads[t].by = "handleUnregister"
                 \/ \E i \in 1..Len(hubOps') : hubOps'[i].op = "goRestart")
                <=> (mod[c].ID \in hub.ExpectedPlugins /\ ~pm.shuttingDown)]_vars


\* the status updates for external plugin id in queue q
Updates(q, id) ==
    Cardinality({i \in 1..Len(q) :
                    q[i].type = "external_plugin_status_update" /\ q[i].id = id})

\* C33: when the Hub handles the disconnect of a registered external plugin,
\* the plugin is no longer in the plugins map, its external record is kept
\* with status disconnected and no peer pointer, and one more status update
\* for it is in the queue of the main module if one is active; when the id
\* registers again the record is kept, connected and points to the new peer.
C33_ExternalPluginDisconnect ==
    [][/\ \A c \in Conns :
             (/\ conn[c] = "closing" /\ conn'[c] = "gone"
              /\ mod[c].ComponentType = "external_plugin"
              /\ mod[c].IsActive)
             => /\ \A k \in Keys : hub'.Plugins[k] # c
                /\ hub'.ExternalPlugins[mod[c].ID].exists
                /\ hub'.ExternalPlugins[mod[c].ID].Status = "disconnected"
                /\ hub'.ExternalPlugins[mod[c].ID].Module = NoConn
                /\ \A d \in Conns :
                      (hub.MainModule = d /\ mod[d].IsActive /\ ~sendClosed[d])
                      => Updates(send'[d], mod[c].ID) = Updates(send[d], mod[c].ID) + 1
       /\ \A k \in Keys : \A c \in Conns :
             (/\ hub.ExternalPlugins[k].exists
              /\ route # <<>> /\ route' = Tail(route)
              /\ Head(route).pid = k
              /\ hub'.Plugins[k] = c /\ hub.Plugins[k] # c)
             => /\ hub'.ExternalPlugins[k].exists
                /\ hub'.ExternalPlugins[k].Status = "connected"
                /\ hub'.ExternalPlugins[k].Module = c]_vars


\* C39: when an open, active connection registered as external plugin X is
\* the one the plugins map routes X to and the one the connected external
\* record of X points to, this is still so after the Hub has handled the
\* disconnect of an older connection that had registered itself as X.
C39_ExternalRecordConsistent ==
    [][\A c \in Conns : \A d \in Conns \ {c} :
          (/\ conn[d] = "closing" /\ conn'[d] = "gone"
           /\ Active(c)
           /\ mod[c].ComponentType = "external_plugin"
           /\ mod[d].ComponentType = "external_plugin"
           /\ mod[d].ID = mod[c].ID
           /\ regSrc[c] = c /\ regSrc[d] = d
           /\ hub.Plugins[mod[c].ID] = c
           /\ hub.ExternalPlugins[mod[c].ID].exists
           /\ hub.ExternalPlugins[mod[c].ID].Status = "connected"
           /\ hub.ExternalPlugins[mod[c].ID].Module = c)
          => /\ hub'.Plugins[mod[c].ID] = c
             /\ hub'.ExternalPlugins[mod[c].ID].Status = "connected"
             /\ hub'.ExternalPlugins[mod[c].ID].Module = c]_vars

(***************************************************************************)
(* Ordering.  The queues of this specification hold more than one         *)
(* envelope; a plugin "a" and a main module "b" send each other unicast    *)
(* envelopes whose payload.id is the number of the frame on the wire.      *)
(***************************************************************************)
\* capacity of Route and of every Send queue in the ordering protocol
FifoCap == 2

\* frames read off the wire during one run of the ordering protocol
MaxFifoFrames == 4

FifoFrames ==
    {Message(NoConn, "", "a", "noop", "", NoField, "")}

InitFifo ==
    /\ hub = [NewHub EXCEPT !.cap = FifoCap]
    /\ mod = [c \in Conns |-> [NewModule EXCEPT !.cap = FifoCap]]
    /\ conn = [c \in Conns |-> "absent"]
    /\ send = [c \in Conns |-> <<>>]
    /\ sendClosed = [c \in Conns |-> FALSE]
    /\ route = <<>>
    /\ hubOps = <<>>
    /\ hubPanic = ""
    /\ nframes = 0
    /\ regSrc = [c \in Conns |-> NoConn]
    /\ delivery = NoDelivery
    /\ pm = NewPluginManager(MaxMaxRestarts, TRUE)
    /\ hm = NewHealthMonitor

NextFifo ==
    \/ \E c \in Conns : HubAccept(c)
    \/ \E c \in Conns : HubUnregister(c)
    \/ HubRoute
    \/ HubResume
    \/ \E c \in Conns : \E f \in RouteRegisterFrames :
          nframes < MaxFifoFrames /\ ReadPump(c, f)
    \/ \E c \in Conns : \E f \in FifoFrames :
          nframes < MaxFifoFrames /\ ReadPump(c, [f EXCEPT !.id = nframes + 1])
    \/ \E c \in Conns : TransportClose(c)
    \/ \E c \in Conns : WritePump(c)

SpecFifo == InitFifo /\ [][NextFifo]_vars

\* the unicast envelopes of queue q that arrived on connection A
FromPeer(q, A) == SelectSeq(q, LAMBDA m : m.type = "noop" /\ m.src = A)

\* the envelopes of q are in the order of their frames on the wire, none twice
WireOrder(q) == \A i \in 1..Len(q) : \A j \in 1..Len(q) : i < j => q[i].id < q[j].id

\* C34: for a source peer A and a destination peer B, the unicast envelopes
\* from A in B's send queue, and in Route, are in the order in which A's
\* frames arrived on the wire, none twice; and an envelope from A that the Hub
\* loop enqueues to B is older than every envelope from A still in Route and
\* newer than every envelope from A in B's queue.
C34_PerPairFifo ==
    [][\A A \in Conns :
          /\ WireOrder(FromPeer(route', A))
          /\ \A B \in Conns :
                /\ WireOrder(FromPeer(send'[B], A))
                /\ Len(FromPeer(send'[B], A)) > Len(FromPeer(send[B], A))
                   => /\ Len(send'[B]) = Len(send[B]) + 1
                      /\ send'[B][Len(send'[B])] = Head(route)
                      /\ WireOrder(FromPeer(send'[B], A) \o FromPeer(route', A))]_vars

\* two envelopes of one registered peer wait in another peer's send queue
C34_TwoQueuedInOrder ==
    \E A \in Conns : \E B \in Conns \ {A} :
        /\ Active(A)
        /\ Len(FromPeer(send[B], A)) = 2

(***************************************************************************)
(* Shutdown of the Hub loop under fair scheduling.  The shutdown channel   *)
(* is closed once; the select of the Hub loop takes a case that stays      *)
(* ready, so a loop that is at its select again and again returns.         *)
(***************************************************************************)
\* hub.go 1028-1031: close(h.shutdown)
HubShutdown ==
    /\ hubPanic = ""
    /\ ~hub.shutdown
    /\ hub' = [hub EXCEPT !.shutdown = TRUE]
    /\ UNCHANGED <<mod, conn, send, sendClosed, route, hubOps, hubPanic, nframes,
                   regSrc, delivery, pm, hm>>

\* hub.go 110-113: case <-h.shutdown: return
HubReturn ==
    /\ HubAtSelect
    /\ hub.shutdown
    /\ hub' = [hub EXCEPT !.returned = TRUE]
    /\ UNCHANGED <<mod, conn, send, sendClosed, route, hubOps, hubPanic, nframes,
                   regSrc, delivery, pm, hm>>

NextStop ==
    \/ \E c \in Conns : HubAccept(c)
    \/ \E c \in Conns : HubUnregister(c)
    \/ HubRoute
    \/ HubResume
    \/ \E c \in Conns : \E f \in LiveFrames : ReadPump(c, f)
    \/ \E c \in Conns : TransportClose(c)
    \/ \E c \in Conns : WritePump(c)
    \/ HubShutdown
    \/ HubReturn

SpecStop ==
    /\ Init
    /\ [][NextStop]_vars
    /\ WF_vars(HubStep)
    /\ SF_vars(HubReturn)
    /\ \A c \in Conns : WF_vars(WritePump(c))

\* C35: once the shutdown channel is closed, the Hub loop can still return:
\* it is never left, not returned, inside a handler in a send to a full
\* queue that nothing drains any more (the writer task of that connection
\* ended with its transport), a state from which no step of the loop follows.
C35_LoopReturns ==
    ~(/\ hub.shutdown
      /\ ~hub.returned
      /\ HubBlocked
      /\ conn[Head(hubOps).c] # "open")

(***************************************************************************)
(* The external-plugin monitor (hub.go 410-459) next to the Hub loop, and  *)
(* the registry lock h.mu they share.  Time is counted in seconds and      *)
(* advances by one heartbeat interval at a time; the age of a record is    *)
(* the time since its LastHeartbeat, kept up to the first value past the   *)
(* timeout.  A waiting Lock() holds back every later RLock().              *)
(***************************************************************************)
\* hub.go 61
hubHeartbeatTimeout == 15
\* hub.go 62
hubHeartbeatInterval == 5
\* hub.go 63
pingInterval == 10
\* frames read off the wire during one run with the monitor
MaxMonFrames == 3

\* a main module "b", an external plugin "a" and its heartbeats
MonFrames ==
    {Message(NoConn, "", "hub", "register", "b", NoField, "main_module"),
     Message(NoConn, "", "hub", "register_external_plugin", "", "a", "")}
    \cup HeartbeatFrames

\* hub.go 411-416: time passes; the ticker fires every pingInterval.  Time
\* is counted from the first registration of an external plugin on: a tick
\* before it ranges over an empty map.
MonPass ==
    /\ hubPanic = ""
    /\ hub.mon.pc = "idle"
    /\ ~hub.mon.due
    /\ \E k \in Keys : hub.ExternalPlugins[k].exists
    /\ hub' = [hub EXCEPT
                  !.ExternalPlugins =
                      [k \in Keys |->
                          IF hub.ExternalPlugins[k].exists
                             /\ hub.ExternalPlugins[k].age <= hubHeartbeatTimeout
                          THEN [hub.ExternalPlugins[k] EXCEPT
                                   !.age = @ + hubHeartbeatInterval]
                          ELSE hub.ExternalPlugins[k]],
                  !.mon.phase = (@ + hubHeartbeatInterval) % pingInterval,
                  !.mon.due = (hub.mon.phase + hubHeartbeatInterval) % pingInterval = 0]
    /\ UNCHANGED <<mod, conn, send, sendClosed, route, hubOps, hubPanic, nframes,
                   regSrc, delivery, pm, hm>>

\* hub.go 416-418: the tick is taken, h.mu.RLock() and the range begins
MonLock ==
    /\ hubPanic = ""
    /\ hub.mon.pc = "idle"
    /\ hub.mon.due
    /\ ~hub.mu.waiting
    /\ hub' = [hub EXCEPT !.mu.readers = @ + 1,
                          !.mon.pc = "scan",
                          !.mon.due = FALSE,
                          !.mon.todo = {k \in Keys : hub.ExternalPlugins[k].exists}]
    /\ UNCHANGED <<mod, conn, send, sendClosed, route, hubOps, hubPanic, nframes,
                   regSrc, delivery, pm, hm>>

\* a select with default on the Send queue of connection c (NoConn: no send)
MonSend(c, m) ==
    IF c = NoConn THEN UNCHANGED <<send, hubPanic>>
    ELSE IF sendClosed[c]
    THEN hubPanic' = "send on closed channel" /\ UNCHANGED send
    ELSE /\ send' = IF Len(send[c]) < mod[c].cap
                    THEN [send EXCEPT ![c] = Append(@, m)] ELSE send
         /\ UNCHANGED hubPanic

\* the envelope notifyMainModuleExternalPluginStatus builds for record k of
\* registry h (hub.go 463-481), NoConn where it returns at hub.go 467-469
StatusTarget(h) == IF MainModuleActive(h, mod) THEN h.MainModule ELSE NoConn

StatusUpdate(h, k) ==
    NewMessage(IF h.MainModule = NoConn THEN "" ELSE mod[h.MainModule].ID,
               "external_plugin_status_update", k, h.ExternalPlugins[k].Status)

\* hub.go 419-450: one record of the range.  Past the timeout a connected
\* record is set to disconnected and notifyMainModuleExternalPluginStatus
\* is called, which begins with h.mu.RLock() (hub.go 463): with the Hub loop
\* waiting in Lock() the call stops there (pc "notify"), and as the Hub loop
\* waits for the read lock of the range, neither goes on.
MonVisit(k) ==
    /\ hubPanic = ""
    /\ hub.mon.pc = "scan"
    /\ k \in hub.mon.todo
    /\ LET e == hub.ExternalPlugins[k]
           h1 == [hub EXCEPT !.mon.todo = @ \ {k}]
       IN IF e.age > hubHeartbeatTimeout
          THEN IF e.Status = "connected"
               THEN LET h2 == [h1 EXCEPT !.ExternalPlugins[k].Status = "disconnected"]
                    IN IF hub.mu.waiting
                       THEN /\ hub' = [h2 EXCEPT !.mon.pc = "notify", !.mon.id = k]
                            /\ UNCHANGED <<send, hubPanic>>
                       ELSE /\ hub' = h2
                            /\ MonSend(StatusTarget(h2), StatusUpdate(h2, k))
               ELSE hub' = h1 /\ UNCHANGED <<send, hubPanic>>
          ELSE /\ hub' = h1
               /\ IF /\ e.Status = "connected"
                     /\ e.Module # NoConn
                     /\ mod[e.Module].IsActive
                     /\ e.age > hubHeartbeatInterval * 2
                  THEN MonSend(e.Module, NewMessage(k, "ping", "", ""))
                  ELSE UNCHANGED <<send, hubPanic>>
    /\ UNCHANGED <<mod, conn, sendClosed, route, hubOps, nframes, regSrc,
                   delivery, pm, hm>>

\* hub.go 453: h.mu.RUnlock() after the range
MonUnlock ==
    /\ hubPanic = ""
    /\ hub.mon.pc = "scan"
    /\ hub.mon.todo = {}
    /\ hub' = [hub EXCEPT !.mu.readers = @ - 1, !.mon.pc = "idle"]
    /\ UNCHANGED <<mod, conn, send, sendClosed, route, hubOps, hubPanic, nframes,
                   regSrc, delivery, pm, hm>>

\* hub.go 97, 820 and the handlers of TakesWriteLock: the Hub loop has taken
\* an event and calls h.mu.Lock() while a read lock is held
HubLockWait ==
    /\ HubAtSelect
    /\ hub.mu.readers > 0
    /\ ~hub.mu.waiting
    /\ \/ \E c \in Conns : conn[c] = "absent" /\ \A d \in Conns : d < c => conn[d] # "absent"
       \/ \E c \in Conns : conn[c] = "closing"
       \/ route # <<>> /\ TakesWriteLock(Head(route))
    /\ hub' = [hub EXCEPT !.mu.waiting = TRUE]
    /\ UNCHANGED <<mod, conn, send, sendClosed, route, hubOps, hubPanic, nframes,
                   regSrc, delivery, pm, hm>>

NextMon ==
    \/ \E c \in Conns : HubAccept(c)
    \/ \E c \in Conns : HubUnregister(c)
    \/ HubRoute
    \/ HubResume
    \/ \E c \in Conns : \E f \in MonFrames : nframes < MaxMonFrames /\ ReadPump(c, f)
    \/ \E c \in Conns : TransportClose(c)
    \/ \E c \in Conns : WritePump(c)
    \/ MonPass
    \/ MonLock
    \/ \E k \in Keys : MonVisit(k)
    \/ MonUnlock
    \/ HubLockWait

SpecMon == Init /\ [][NextMon]_vars

\* C38: the Hub loop and the external-plugin monitor never deadlock on the
\* registry lock: the monitor never waits for the read lock of
\* notifyMainModuleExternalPluginStatus, holding the read lock of its range,
\* while the Hub loop waits for the write lock.
C38_NoLockDeadlock ==
    ~(/\ hub.mon.pc = "notify"
      /\ hub.mu.readers > 0
      /\ hub.mu.waiting)

\* the main module is active and its send queue has room
MainModuleHasRoom ==
    /\ MainModuleActive(hub, mod)
    /\ ~sendClosed[hub.MainModule]
    /\ Len(send[hub.MainModule]) < mod[hub.MainModule].cap

\* C37: when the monitor comes, on a tick, to a connected external record
\* whose last heartbeat is older than the timeout, the record is set to
\* disconnected and one status update for it is enqueued to the main module
\* (active, with room in its queue); at a record that is not connected, or
\* not past the timeout, no status update is sent; and a heartbeat of the
\* plugin of a record that is not connected sets it back to connected, as
\* fresh, and enqueues a status update to the main module.
C37_ExternalLiveness ==
    [][/\ \A k \in Keys :
            MonVisit(k)
            => IF /\ hub.ExternalPlugins[k].Status = "connected"
                  /\ hub.ExternalPlugins[k].age > hubHeartbeatTimeout
               THEN /\ hub'.ExternalPlugins[k].Status = "disconnected"
                    /\ MainModuleHasRoom
                       => Updates(send'[hub.MainModule], k)
                             = Updates(send[hub.MainModule], k) + 1
               ELSE /\ hub'.ExternalPlugins[k].Status = hub.ExternalPlugins[k].Status
                    /\ \A c \in Conns : Updates(send'[c], k) = Updates(send[c], k)
       /\ \A c \in Conns :
            (/\ route # <<>> /\ route' = Tail(route)
             /\ hubOps' = <<>> /\ hubPanic' = ""
             /\ Head(route).type = "heartbeat"
             /\ Head(route).src = c
             /\ Head(route).from = mod[c].ID
             /\ Active(c)
             /\ mod[c].ComponentType = "external_plugin"
             /\ hub.Plugins[mod[c].ID] = c
             /\ hub.MainModule # c
             /\ hub.ExternalPlugins[mod[c].ID].exists
             /\ hub.ExternalPlugins[mod[c].ID].Status # "connected")
            => /\ hub'.ExternalPlugins[mod[c].ID].Status = "connected"
               /\ hub'.ExternalPlugins[mod[c].ID].age = 0
               /\ MainModuleHasRoom
                  => Updates(send'[hub.MainModule], mod[c].ID)
                        = Updates(send[hub.MainModule], mod[c].ID) + 1]_vars

====
